---- MODULE Spec2Model ----
(***************************************************************************)
(* ClipperLedger (streamlit_app.py): the barber-shop ledger.               *)
(*                                                                         *)
(* A file on disk is its text, held line by line: the cells of its first   *)
(* line and of the others, split at the commas.  A DataFrame in memory is  *)
(* a sequence of column names and rows that map a column name to a value.  *)
(* pandas' null is NA; to_csv writes it as the empty cell and read_csv     *)
(* reads the empty cell back as NA.  Every other value is carried as its   *)
(* CSV text.                                                               *)
(***************************************************************************)
EXTENDS Naturals, Integers, Sequences, FiniteSets, TLC

VARIABLES
    csv,        \* shop_data.csv (CSV_FILE)
    bak,        \* shop_data_backup.csv (BACKUP_FILE)
    ledger,     \* st.session_state.ledger
    users,      \* st.session_state.users
    who,        \* current_user, or NoUser when logged_in is False
    pending,    \* <<>> or <<pending_entry>> (with its pending_warnings)
    clock,      \* the reading datetime.now() gave to the last generated ID
    uploaded_files, \* the files the Merge Ledgers uploader holds
    owner_authenticated, \* st.session_state.owner_authenticated (False when absent)
    owner_password,      \* st.session_state.owner_password ("owner" when absent)
    sessions,   \* the browser sessions running side by side, when there are several
    args,       \* the arguments of a function called on its own
    ret,        \* what that call returned
    op,         \* the handler that ran last
    msgs        \* what that handler reported through st.error/warning/success

vars ==
    <<csv, bak, ledger, users, who, pending, clock, uploaded_files,
      owner_authenticated, owner_password, sessions, args, ret, op, msgs>>

----------------------------------------------------------------------------
(* Bounds of the model *)

\* an add or an import starts from fewer rows than this, a merge from no more
MaxRows == 2
\* clock readings available to generate_unique_id
MaxClock == 1

----------------------------------------------------------------------------
(* CONFIG *)

REQUIRED_COLS ==
    <<"ID", "Date", "Time", "Barber_Name", "Customer_Name",
      "Service_Type", "Cost", "Role", "Duration_Min">>

\* pandas' missing value (pd.NA / NaN)
NA == "<NA>"

Range(s) == {s[i] : i \in 1..Len(s)}

ReqSet == Range(REQUIRED_COLS)

\* position of column c in the header cols (0 when absent)
ColIndex(cols, c) ==
    IF c \in Range(cols) THEN CHOOSE i \in 1..Len(cols) : cols[i] = c ELSE 0

----------------------------------------------------------------------------
(* Text helpers: str.strip, str.lower, str.title and astype(str) on the    *)
(* names the model uses.                                                   *)

Strip(s) ==
    CASE s = " dave " -> "dave"
      [] s = " Dave " -> "Dave"
      [] s = " eve "  -> "eve"
      [] s = " zed "  -> "zed"
      [] s = " Zed "  -> "Zed"
      [] s = "  "     -> ""
      [] s = " "      -> ""
      [] OTHER        -> s

Lower(s) ==
    CASE s = "Dave"    -> "dave"
      [] s = "DAVE"    -> "dave"
      [] s = " Dave "  -> " dave "
      [] s = "Eve"     -> "eve"
      [] s = "EVE"     -> "eve"
      [] s = "Owner"   -> "owner"
      [] s = "Bob"     -> "bob"
      [] s = "Walk-In" -> "walk-in"
      [] s = "Nan"     -> "nan"
      [] s = "Zed"     -> "zed"
      [] s = " Zed "   -> " zed "
      [] OTHER         -> s

Title(s) ==
    CASE s = "dave"    -> "Dave"
      [] s = "DAVE"    -> "Dave"
      [] s = " dave "  -> " Dave "
      [] s = "eve"     -> "Eve"
      [] s = "EVE"     -> "Eve"
      [] s = "owner"   -> "Owner"
      [] s = "bob"     -> "Bob"
      [] s = "walk-in" -> "Walk-In"
      [] s = "nan"     -> "Nan"
      [] s = "zed"     -> "Zed"
      [] s = " zed "   -> " Zed "
      [] OTHER         -> s

\* Series.astype(str): the null value becomes the text "nan"
AsStr(v) == IF v = NA THEN "nan" ELSE v

----------------------------------------------------------------------------
(* DataFrames and CSV files *)

\* A DataFrame is its columns in order, its rows, and the dtype of each
\* column as numpy's dtype.kind: "i" int64, "f" float64, "O" object.  A value
\* is the text to_csv writes for it: 30 for the integer, 30.0 for the float.
AllObject(cols) == [c \in Range(cols) |-> "O"]

\* pd.DataFrame(columns=REQUIRED_COLS)
EmptyFrame == [cols |-> REQUIRED_COLS, rows |-> <<>>, dt |-> AllObject(REQUIRED_COLS)]

\* the texts pandas parses as integers and as floats, among those in use
IntTexts == {"30", "45"}
FloatTexts ==
    {"0.0", "15.0", "18.0", "20.0", "25.0", "30.0", "40.0", "41.0", "42.0", "43.0",
     "44.0", "45.0", "46.0", "99.0", "600.0", "45.7", "2e1"}

\* an integer or a number text as the float it is cast to
FloatOf(v) ==
    CASE v = "30"  -> "30.0"
      [] v = "45"  -> "45.0"
      [] v = "2e1" -> "20.0"
      [] OTHER     -> v

\* a value held in a column of dtype k
AsKind(v, k) == IF k = "f" THEN FloatOf(v) ELSE v

\* the dtype read_csv infers for a column from its cells: object when it has
\* no row or a cell that is not a number, int64 when every cell is an
\* integer, float64 otherwise (an empty cell is NaN)
ColumnKind(cells) ==
    IF cells = <<>> THEN "O"
    ELSE IF \E i \in 1..Len(cells) : cells[i] # NA /\ cells[i] \notin IntTexts \cup FloatTexts
    THEN "O"
    ELSE IF \A i \in 1..Len(cells) : cells[i] \in IntTexts THEN "i"
    ELSE "f"

\* the rows read under the header cols, each column typed
Typed(cols, raw) ==
    LET dt == [c \in Range(cols) |-> ColumnKind([i \in 1..Len(raw) |-> raw[i][c]])]
    IN [cols |-> cols,
        rows |-> [i \in 1..Len(raw) |-> [c \in Range(cols) |-> AsKind(raw[i][c], dt[c])]],
        dt |-> dt]

\* A file is held as the cells of its first line (cols) and of its other
\* lines (rows); eol says that its text ends with a line terminator and nul
\* that it has a NUL byte.  st is "absent" when there is no file, "empty"
\* for a file of size 0, "corrupt" for a text on which pd.read_csv raises,
\* and "ok" otherwise.
AbsentFile ==
    [st |-> "absent", cols |-> <<>>, rows |-> <<>>, eol |-> TRUE, nul |-> FALSE]
EmptyFileOnDisk ==
    [st |-> "empty", cols |-> <<>>, rows |-> <<>>, eol |-> TRUE, nul |-> FALSE]

\* the byte 0, which a write beyond the end of a file leaves in between
NUL == "@"
\* the quote character: a field that opens with it runs to the next quote
Quote == "\""

\* sep.join(texts)
RECURSIVE Join(_, _)
Join(texts, sep) ==
    IF texts = <<>> THEN ""
    ELSE IF Len(texts) = 1 THEN texts[1]
    ELSE texts[1] \o sep \o Join(Tail(texts), sep)

\* s.split(sep): the pieces of s between the places of the separator
Split(s, sep) ==
    LET at == {i \in 1..Len(s) : SubSeq(s, i, i) = sep}
        n == Cardinality(at)
        place(k) == CHOOSE i \in at : Cardinality({j \in at : j < i}) = k - 1
    IN [k \in 1..(n + 1) |->
           SubSeq(s, IF k = 1 THEN 1 ELSE place(k - 1) + 1,
                     IF k = n + 1 THEN Len(s) ELSE place(k) - 1)]

Contains(s, ch) == \E i \in 1..Len(s) : SubSeq(s, i, i) = ch

\* the first n bytes of s
Prefix(s, n) == SubSeq(s, 1, IF n < Len(s) THEN n ELSE Len(s))

\* the bytes of s after the first n
Suffix(s, n) == IF n < Len(s) THEN SubSeq(s, n + 1, Len(s)) ELSE ""

\* n NUL bytes
RECURSIVE Nuls(_)
Nuls(n) ==
    IF n <= 0 THEN ""
    ELSE IF n % 2 = 1 THEN NUL \o Nuls(n - 1)
    ELSE LET half == Nuls(n \div 2) IN half \o half

\* a line the tokenizer of read_csv skips: empty, or blanks only
BlankLine(cells) ==
    Len(cells) = 1 /\ \A i \in 1..Len(cells[1]) : SubSeq(cells[1], i, i) = " "

\* a field that opens with a quote and is never closed: read_csv raises
\* "EOF inside string", whether it skips bad lines or not (the texts of the
\* model have no second quote, which would close the field)
OpensQuote(cell) == cell # "" /\ SubSeq(cell, 1, 1) = Quote

\* the lines of a file, the first one first; an empty file has none
LinesOf(f) == IF f.st \in {"absent", "empty"} THEN <<>> ELSE <<f.cols>> \o f.rows

\* the bytes of a file
TextOf(f) ==
    LET lines == LinesOf(f)
    IN IF lines = <<>> THEN ""
       ELSE Join([i \in 1..Len(lines) |-> Join(lines[i], ",")], "\n")
            \o (IF f.eol THEN "\n" ELSE "")

\* the file that has the bytes t
FileOfText(t) ==
    IF t = "" THEN EmptyFileOnDisk
    ELSE LET pieces == Split(t, "\n")
             eol == pieces[Len(pieces)] = ""
             lines == IF eol THEN SubSeq(pieces, 1, Len(pieces) - 1) ELSE pieces
             cells == [i \in 1..Len(lines) |-> Split(lines[i], ",")]
             raises ==
                 \/ \A i \in 1..Len(cells) : BlankLine(cells[i])
                 \/ \E i \in 1..Len(cells) : \E k \in 1..Len(cells[i]) :
                       OpensQuote(cells[i][k])
         IN [st |-> IF raises THEN "corrupt" ELSE "ok",
             cols |-> cells[1], rows |-> Tail(cells),
             eol |-> eol, nul |-> Contains(t, NUL)]

\* the faults of a call that opens a file and writes to it: nothing raises
\* (NoFault), open() raises (OpenFails), or a write raises once n bytes of
\* the text are in the file (the number n, as on a full disk)
NoFault == -1
OpenFails == -2

\* open(path, mode), write(text), close(): the file afterwards.  Mode "w"
\* empties the file when it opens it, mode "a" writes after what is there,
\* and both make the file when there is none.
Write(f, text, mode, how) ==
    IF how = OpenFails THEN f
    ELSE FileOfText((IF mode = "a" THEN TextOf(f) ELSE "")
                    \o (IF how = NoFault THEN text ELSE Prefix(text, how)))

\* the text of a value in a CSV cell and back
CellOf(v) == IF v = NA THEN "" ELSE v
ValOf(c) == IF c = "" THEN NA ELSE c

\* one DataFrame row written under the header cols
CellsOf(row, cols) == [i \in 1..Len(cols) |-> CellOf(row[cols[i]])]

\* DataFrame.to_csv(path, index=False)
to_csv(df) ==
    [st |-> "ok", cols |-> df.cols,
     rows |-> [i \in 1..Len(df.rows) |-> CellsOf(df.rows[i], df.cols)],
     eol |-> TRUE, nul |-> FALSE]

\* one line of a file read under the header cols: short lines are padded
RowOf(cells, cols) ==
    [c \in Range(cols) |->
        IF ColIndex(cols, c) <= Len(cells) THEN ValOf(cells[ColIndex(cols, c)])
        ELSE NA]

\* the field as the parser hands it on: a C string, which ends at its first
\* NUL byte
UpToNul(cell) ==
    LET at == {i \in 1..Len(cell) : SubSeq(cell, i, i) = NUL}
    IN IF at = {} THEN cell
       ELSE SubSeq(cell, 1, (CHOOSE i \in at : \A j \in at : i <= j) - 1)

\* the lines the tokenizer of read_csv delivers: blank lines are skipped
\* (skip_blank_lines)
Tokens(f) ==
    LET lines == SelectSeq(<<f.cols>> \o f.rows, LAMBDA l : ~BlankLine(l))
    IN IF f.nul
       THEN [i \in 1..Len(lines) |-> [k \in 1..Len(lines[i]) |-> UpToNul(lines[i][k])]]
       ELSE lines

\* the column names read_csv makes of the header line: an empty name is
\* "Unnamed: k", and a name that came before gets a number
HeaderNames(cells) ==
    LET base == [i \in 1..Len(cells) |->
                    IF cells[i] = "" THEN "Unnamed: " \o ToString(i - 1) ELSE cells[i]]
        seen(i) == Cardinality({j \in 1..(i - 1) : base[j] = base[i]})
    IN IF "" \notin Range(cells) /\ Cardinality(Range(cells)) = Len(cells) THEN cells
       ELSE [i \in 1..Len(cells) |->
                IF seen(i) = 0 THEN base[i] ELSE base[i] \o "." \o ToString(seen(i))]

\* the fields the first line of data has more than the header: read_csv
\* takes them as the index of the frame
LeadingCols(lines) ==
    IF Len(lines) > 1 /\ Len(lines[2]) > Len(lines[1])
    THEN Len(lines[2]) - Len(lines[1]) ELSE 0

\* a line with more fields than the header and the index take
TooLong(lines, cells) == Len(cells) > Len(lines[1]) + LeadingCols(lines)

RECURSIVE SkipBadLines(_, _)
SkipBadLines(lines, data) ==
    IF data = <<>> THEN <<>>
    ELSE IF TooLong(lines, Head(data)) THEN SkipBadLines(lines, Tail(data))
    ELSE <<Head(data)>> \o SkipBadLines(lines, Tail(data))

\* the frame of the tokenized lines, the lines data under the header
FrameOf(lines, data) ==
    LET cols == HeaderNames(lines[1])
        lead == LeadingCols(lines)
    IN IF lead = 0 THEN Typed(cols, [i \in 1..Len(data) |-> RowOf(data[i], cols)])
       ELSE Typed(cols, [i \in 1..Len(data) |->
                            RowOf(SubSeq(data[i], lead + 1, Len(data[i])), cols)])

\* pd.read_csv raises on a missing or empty file and on a text it cannot
\* parse
Readable(f) == f.st = "ok"

\* _read_csv_robust: a line with more fields than the header makes the first
\* read raise, and the second read skips such lines
_read_csv_robust(f) ==
    LET lines == Tokens(f)
    IN FrameOf(lines, SkipBadLines(lines, Tail(lines)))

\* for col in REQUIRED_COLS: add it as NA when missing (an object column);
\* then df[REQUIRED_COLS]
WithRequiredCols(df) ==
    [cols |-> REQUIRED_COLS,
     rows |-> [i \in 1..Len(df.rows) |->
                 [c \in ReqSet |->
                     IF c \in DOMAIN df.rows[i] THEN df.rows[i][c] ELSE NA]],
     dt |-> [c \in ReqSet |-> IF c \in Range(df.cols) THEN df.dt[c] ELSE "O"]]

\* load_data changed to turn to the backup file also when there is no file
MutLoadBackupWhenAbsent(f, b) ==
    IF Readable(f) THEN WithRequiredCols(_read_csv_robust(f))
    ELSE IF b.st # "absent" /\ Readable(b) THEN _read_csv_robust(b)
    ELSE EmptyFrame

\* load_data
load_data(f, b) ==
    IF f.st # "absent"
    THEN IF Readable(f) THEN WithRequiredCols(_read_csv_robust(f))
         ELSE IF b.st # "absent" /\ Readable(b) THEN _read_csv_robust(b)
         ELSE EmptyFrame
    ELSE EmptyFrame

\* the st.error / st.info load_data reports
load_msgs(f, b) ==
    IF f.st # "absent" /\ ~Readable(f)
    THEN {"Error loading"} \cup (IF b.st # "absent" THEN {"Loading from backup"} ELSE {})
    ELSE {}

\* create_backup changed to copy only while no backup exists yet
MutBackupOnlyOnce(f, b, copy) ==
    IF f.st = "absent" \/ b.st # "absent" THEN b
    ELSE IF copy = NoFault THEN f
    ELSE Write(b, TextOf(f), "w", copy)

\* create_backup: shutil.copy2 when the file exists.  The copy opens the
\* backup for writing, which empties it, and writes the bytes of the file;
\* an OSError is caught, whatever it has left of the backup.
create_backup(f, b, copy) ==
    IF f.st = "absent" THEN b
    ELSE IF copy = NoFault THEN f
    ELSE Write(b, TextOf(f), "w", copy)

backup_msgs(f, copy) ==
    IF f.st # "absent" /\ copy # NoFault THEN {"Could not create backup"} ELSE {}

----------------------------------------------------------------------------
(* Writing the durable file *)

\* pd.DataFrame([entry]): one row, the columns in the order of the dict;
\* float(cost) is a float64 column, int(duration) an int64 column
EntryFrame(entry) ==
    [cols |-> REQUIRED_COLS, rows |-> <<entry>>,
     dt |-> [c \in ReqSet |->
               CASE c = "Cost" -> "f" [] c = "Duration_Min" -> "i" [] OTHER -> "O"]]

\* no write of the call raises; otherwise fail names the write that raises
\* (1: the first write of the call, 2: the append that follows a rewrite)
\* and how it does
NoFail == [write |-> 0, how |-> NoFault]

\* the text of lines, each with its line terminator
LinesText(lines) ==
    IF lines = <<>> THEN ""
    ELSE Join([i \in 1..Len(lines) |-> Join(lines[i], ",")], "\n") \o "\n"

\* the text df.to_csv(index=False, header=header) writes
CsvText(df, header) ==
    LinesText((IF header THEN <<df.cols>> ELSE <<>>) \o to_csv(df).rows)

\* df.to_csv(path, mode="a", header=False) on a file that is not empty: the
\* row goes under whatever header the file has, cell by cell in the order
\* of the frame's columns, and after whatever the last line of the file is
AppendLine(f, df) ==
    IF f.eol THEN [f EXCEPT !.rows = @ \o to_csv(df).rows]
    ELSE Write(f, CsvText(df, FALSE), "a", NoFault)

\* save_entry_to_disk after create_backup.  Returns the file and whether
\* the function returned without raising.
save_entry_to_disk(f, entry, fail) ==
    LET df_entry == EntryFrame(entry)
        needs_header == f.st \in {"absent", "empty"}
        raised(file) == [file |-> file, ok |-> FALSE]
        done(file) == [file |-> file, ok |-> TRUE]
        \* df_entry.to_csv(CSV_FILE, mode="a", header=needs_header) on the
        \* file g, as the k-th write of the call
        append(g, k) ==
            IF fail.write = k
            THEN raised(Write(g, CsvText(df_entry, needs_header), "a", fail.how))
            ELSE done(IF needs_header THEN to_csv(df_entry) ELSE AppendLine(g, df_entry))
    IN IF needs_header THEN append(f, 1)
       ELSE IF Range(f.cols) # ReqSet
            THEN \* the header is stale: reload, add the columns, rewrite
                 IF ~Readable(f) THEN raised(f)
                 ELSE LET df_existing == WithRequiredCols(_read_csv_robust(f))
                      IN IF fail.write = 1
                         THEN raised(Write(f, CsvText(df_existing, TRUE), "w", fail.how))
                         ELSE append(to_csv(df_existing), 2)
            ELSE append(f, 1)

\* overwrite_disk_with_session after create_backup
overwrite_disk_with_session(f, df, fail) ==
    IF fail.write = 1
    THEN [file |-> Write(f, CsvText(df, TRUE), "w", fail.how), ok |-> FALSE]
    ELSE [file |-> to_csv(df), ok |-> TRUE]

\* numpy's common type of a set of dtypes
CommonKind(kinds) ==
    IF "O" \in kinds THEN "O" ELSE IF "f" \in kinds THEN "f" ELSE "i"

\* a column of a frame that counts as missing when the frames are joined:
\* one that can hold nulls and has no row or nulls only
IsNaUnit(df, c) ==
    df.dt[c] # "i" /\ \A i \in 1..Len(df.rows) : df.rows[i][c] = NA

\* the dtype of column c in pd.concat(dfs): the common type of the columns
\* that have values; int64 becomes float64 when a frame lacks the column,
\* and becomes the common type of all when every frame has it
ConcatKind(dfs, c) ==
    LET have == {k \in 1..Len(dfs) : c \in Range(dfs[k].cols)}
        live == {k \in have : ~IsNaUnit(dfs[k], c)}
        all_kinds == {dfs[k].dt[c] : k \in have}
    IN IF live = {} THEN CommonKind(all_kinds)
       ELSE LET k0 == CommonKind({dfs[k].dt[c] : k \in live})
            IN IF k0 # "i" THEN k0
               ELSE IF have # 1..Len(dfs) THEN "f"
               ELSE CommonKind(all_kinds)

\* the columns of the frames, in the order of their first appearance
RECURSIVE ConcatCols(_)
ConcatCols(dfs) ==
    IF dfs = <<>> THEN <<>>
    ELSE LET before == ConcatCols(SubSeq(dfs, 1, Len(dfs) - 1))
         IN before \o SelectSeq(dfs[Len(dfs)].cols, LAMBDA c : c \notin Range(before))

\* the rows of the frames, one frame after the other
RECURSIVE ConcatRows(_)
ConcatRows(dfs) ==
    IF dfs = <<>> THEN <<>>
    ELSE ConcatRows(SubSeq(dfs, 1, Len(dfs) - 1)) \o dfs[Len(dfs)].rows

\* pd.concat(dfs, ignore_index=True): the union of the columns, a missing
\* cell is null, and each column has the dtype the join gives it
concat_all(dfs) ==
    LET cols == ConcatCols(dfs)
        dt == [c \in Range(cols) |-> ConcatKind(dfs, c)]
        raw == ConcatRows(dfs)
        widen(r) ==
            [c \in Range(cols) |-> IF c \in DOMAIN r THEN AsKind(r[c], dt[c]) ELSE NA]
    IN [cols |-> cols, rows |-> [i \in 1..Len(raw) |-> widen(raw[i])], dt |-> dt]

\* pd.concat([a, b], ignore_index=True)
concat(a, b) == concat_all(<<a, b>>)

----------------------------------------------------------------------------
(* Identifiers *)

\* str(uuid.uuid4())[:4]
Suffixes == {"a1", "b2"}

\* generate_unique_id at clock reading t with random part sfx
generate_unique_id(t, sfx) == ToString(t) \o "-" \o sfx

\* the identifiers n successive calls can return when the previous call read
\* the clock at t0: the clock does not go back, and may not have advanced
RECURSIVE GeneratedRuns(_, _)
GeneratedRuns(n, t0) ==
    IF n = 0 THEN {<<>>}
    ELSE UNION {{<<[t |-> t, id |-> generate_unique_id(t, x)]>> \o rest :
                    rest \in GeneratedRuns(n - 1, t)} :
                <<t, x>> \in (t0..MaxClock) \X Suffixes}

LastClock(run, t0) == IF run = <<>> THEN t0 ELSE run[Len(run)].t

----------------------------------------------------------------------------
(* Validation *)

\* datetime.now().date(), as a day of January 2024
Today == 10

\* str(entry_date)
DateStr(d) == "2024-01-" \o ToString(d)

\* float(cost) as text
CostStr(c) == ToString(c) \o ".0"

\* validate_entry changed to accept an empty customer name
MutValidateNoCustomer(barber, customer, cost, entry_date) ==
    LET errors ==
            (IF barber = "" THEN <<"Barber name is required">> ELSE <<>>)
         \o (IF cost <= 0 THEN <<"Cost must be greater than $0">> ELSE <<>>)
        warnings ==
            (IF cost > 500 THEN <<"Cost is unusually high">> ELSE <<>>)
         \o (IF 0 < cost /\ cost < 5 THEN <<"Cost is unusually low">> ELSE <<>>)
         \o (IF entry_date > Today THEN <<"Date is in the future">> ELSE <<>>)
    IN [is_valid |-> Len(errors) = 0, errors |-> errors, warnings |-> warnings]

\* validate_entry changed to warn from a cost of 500 on
MutValidateHighFrom500(barber, customer, cost, entry_date) ==
    LET errors ==
            (IF barber = "" THEN <<"Barber name is required">> ELSE <<>>)
         \o (IF customer = "" THEN <<"Customer name is required">> ELSE <<>>)
         \o (IF cost <= 0 THEN <<"Cost must be greater than $0">> ELSE <<>>)
        warnings ==
            (IF cost >= 500 THEN <<"Cost is unusually high">> ELSE <<>>)
         \o (IF 0 < cost /\ cost < 5 THEN <<"Cost is unusually low">> ELSE <<>>)
         \o (IF entry_date > Today THEN <<"Date is in the future">> ELSE <<>>)
    IN [is_valid |-> Len(errors) = 0, errors |-> errors, warnings |-> warnings]

\* validate_entry: (is_valid, errors, warnings)
validate_entry(barber, customer, cost, entry_date) ==
    LET errors ==
            (IF barber = "" THEN <<"Barber name is required">> ELSE <<>>)
         \o (IF customer = "" THEN <<"Customer name is required">> ELSE <<>>)
         \o (IF cost <= 0 THEN <<"Cost must be greater than $0">> ELSE <<>>)
        warnings ==
            (IF cost > 500 THEN <<"Cost is unusually high">> ELSE <<>>)
         \o (IF 0 < cost /\ cost < 5 THEN <<"Cost is unusually low">> ELSE <<>>)
         \o (IF entry_date > Today THEN <<"Date is in the future">> ELSE <<>>)
    IN [is_valid |-> Len(errors) = 0, errors |-> errors, warnings |-> warnings]

----------------------------------------------------------------------------
(* Accounts and login *)

NoUser == [user |-> "", role |-> "", display |-> ""]

Account(pw, role, name) == [password |-> pw, role |-> role, display_name |-> name]

\* users.json as found on disk: it holds no owner account
UsersJson ==
    [u \in {"dave", "eve", "ghost"} |->
        CASE u = "dave"  -> Account("pw", "barber", "Dave")
          [] u = "eve"   -> Account("pw", "barber", "Eve")
          [] u = "ghost" -> Account("pw", "barber", " ")]

\* initialize_default_owner
initialize_default_owner(us) ==
    IF \A u \in DOMAIN us : us[u].role # "owner"
    THEN [u \in DOMAIN us \cup {"owner"} |->
            IF u = "owner" THEN Account("owner", "owner", "Owner") ELSE us[u]]
    ELSE us

\* authenticate changed to look at the username only
MutAuthAnyPassword(username, password, us) ==
    LET key == Strip(Lower(username))
    IN IF key \in DOMAIN us
       THEN [user |-> key, role |-> us[key].role, display |-> us[key].display_name]
       ELSE NoUser

\* authenticate: the account, or NoUser for None
authenticate(username, password, us) ==
    LET key == Strip(Lower(username))
    IN IF key \in DOMAIN us /\ us[key].password = password
       THEN [user |-> key, role |-> us[key].role, display |-> us[key].display_name]
       ELSE NoUser

logged_in == who # NoUser

----------------------------------------------------------------------------
(* Visibility *)

SelectRows(df, Keep(_)) == [df EXCEPT !.rows = SelectSeq(df.rows, Keep)]

\* get_user_ledger_raw: the session ledger as the current user may see it
get_user_ledger_raw(df, actor) ==
    IF actor.role = "owner" THEN df
    ELSE SelectRows(df,
            LAMBDA r : Lower(Strip(AsStr(r["Barber_Name"]))) = Lower(actor.display))

\* the script raises before any page code when the sidebar cannot filter
SidebarRenders(df, actor) ==
    actor.role = "owner" \/ "Barber_Name" \in Range(df.cols)

\* user_record_count
user_record_count(df, actor) == Len(get_user_ledger_raw(df, actor).rows)

----------------------------------------------------------------------------
(* Normalisation for analytics *)

\* pd.to_numeric(errors="coerce") on the cost and duration texts in use
to_numeric(v) ==
    CASE v = NA    -> NA
      [] v = "abc" -> NA
      [] v = "bad" -> NA
      [] v = "  "  -> NA
      [] v = "2e1" -> "20.0"
      [] OTHER     -> v

\* the date a text stands for, when it is one
to_datetime(v) ==
    CASE v = NA    -> NA
      [] v = "bad" -> NA
      [] v = "abc" -> NA
      [] v = "  "  -> NA
      [] v = "01/05/2024" -> "2024-01-05"
      [] OTHER     -> v

\* the format pandas guesses from a date text, "none" when it cannot
DateFormat(v) ==
    CASE v = "01/05/2024" -> "%m/%d/%Y"
      [] v \in {"bad", "abc", "  "} -> "none"
      [] OTHER -> "%Y-%m-%d"

\* pd.to_datetime(errors="coerce") on a column (pandas 2): the format is
\* guessed from the first value that is not null and every value is parsed
\* with it, a text in another format becoming NaT; when no format can be
\* guessed each value is parsed on its own
to_datetime_col(values) ==
    LET given == SelectSeq(values, LAMBDA v : v # NA)
        format == IF given = <<>> THEN "none" ELSE DateFormat(given[1])
    IN [i \in 1..Len(values) |->
          IF format = "none" \/ values[i] = NA \/ DateFormat(values[i]) = format
          THEN to_datetime(values[i]) ELSE NA]

\* Series.fillna
fillna(v, d) == IF v = NA THEN d ELSE v

\* .astype(int) on a duration that to_numeric accepted
AsInt(v) ==
    CASE v = "30.0" -> "30"
      [] v = "45.0" -> "45"
      [] v = "45.7" -> "45"
      [] OTHER      -> v

\* the dtypes normalize_ledger leaves: Cost as to_numeric types it, Date
\* datetime64 ("M"), Duration_Min int64, the texts object
NormalKinds(df, costs) ==
    [c \in ReqSet |->
        CASE c = "Cost" -> ColumnKind(costs)
          [] c = "Date" -> "M"
          [] c = "Duration_Min" -> "i"
          [] c = "ID" -> df.dt[c]
          [] OTHER -> "O"]

\* normalize_ledger, with the conversion of the duration given
Normalized(df_in, Duration(_)) ==
    IF df_in.rows = <<>> \/ df_in.cols = <<>> THEN EmptyFrame
    ELSE LET df == WithRequiredCols(df_in)
             n == Len(df.rows)
             costs == [i \in 1..n |-> to_numeric(df.rows[i]["Cost"])]
             cost_kind == ColumnKind(costs)
             dates == to_datetime_col([i \in 1..n |-> df.rows[i]["Date"]])
             typed(i) ==
                 [df.rows[i] EXCEPT !["Cost"] = AsKind(costs[i], cost_kind),
                                    !["Date"] = dates[i],
                                    !["Time"] = AsStr(@),
                                    !["Role"] = AsStr(fillna(@, "Employee")),
                                    !["Service_Type"] = AsStr(fillna(@, "Haircut"))]
             named(r) ==
                 [r EXCEPT !["Barber_Name"] = Title(Strip(AsStr(@))),
                           !["Customer_Name"] = Title(Strip(AsStr(@))),
                           !["Duration_Min"] = Duration(@)]
             kept == SelectSeq([i \in 1..n |-> typed(i)],
                               LAMBDA r : r["Date"] # NA /\ r["Cost"] # NA)
         IN [cols |-> REQUIRED_COLS,
             rows |-> [i \in 1..Len(kept) |-> named(kept[i])],
             dt |-> NormalKinds(df, costs)]

\* normalize_ledger changed to fill the duration before it is coerced
MutNormalizeFillFirst(df_in) ==
    Normalized(df_in, LAMBDA v : AsInt(to_numeric(fillna(v, "30"))))

\* normalize_ledger
normalize_ledger(df_in) ==
    Normalized(df_in, LAMBDA v : AsInt(fillna(to_numeric(v), "30")))

\* get_clean_ledger
get_clean_ledger(df) == normalize_ledger(df)

\* get_user_ledger: the clean ledger as the current user may see it
get_user_ledger(df, actor) ==
    IF actor.role = "owner" THEN get_clean_ledger(df)
    ELSE SelectRows(get_clean_ledger(df),
            LAMBDA r : Lower(r["Barber_Name"]) = Lower(actor.display))

----------------------------------------------------------------------------
(* The handlers of the script.  Each is one rerun of the script: the login *)
(* gate and the sidebar run first, then the page's code.                   *)

Stamp(name, reported) ==
    /\ op' = name
    /\ msgs' = reported
    /\ UNCHANGED <<uploaded_files, owner_authenticated, owner_password, sessions, args, ret>>

\* the same on the Merge Ledgers page, whose uploader now holds the batch
StampMerge(uploads, reported) ==
    /\ op' = "merge"
    /\ msgs' = reported
    /\ uploaded_files' = uploads
    /\ UNCHANGED <<owner_authenticated, owner_password, sessions, args, ret>>

PageRuns == logged_in /\ SidebarRenders(ledger, who)

\* the model lets the ledger grow up to MaxRows rows, the file by one more
Room == Len(ledger.rows) < MaxRows /\ Len(csv.rows) <= MaxRows

\* add_entry_to_ledger: the session first, then the disk
add_entry_to_ledger(name, entry, copy, fail) ==
    LET saved == save_entry_to_disk(csv, entry, fail)
    IN /\ ledger' = concat(ledger, EntryFrame(entry))
       /\ bak' = create_backup(csv, bak, copy)
       /\ csv' = saved.file
       /\ Stamp(name,
                backup_msgs(csv, copy)
                \cup (IF saved.ok THEN {"Entry added"}
                      ELSE {"Failed to save entry",
                            "Added to session but failed to save to disk"}))

\* the display names the owner's Barber Name selectbox offers
barber_names == {users[u].display_name : u \in DOMAIN users}

\* Login form
Login(username, password) ==
    /\ ~logged_in
    /\ LET user == authenticate(username, password, users)
       IN /\ who' = user
          /\ Stamp("login", IF user = NoUser THEN {"Invalid username or password."} ELSE {})
    /\ UNCHANGED <<csv, bak, ledger, users, pending, clock>>

\* Logout button: the login keys and owner_authenticated are deleted,
\* nothing else
Logout ==
    /\ logged_in
    /\ who' = NoUser
    /\ owner_authenticated' = FALSE
    /\ op' = "logout"
    /\ msgs' = {}
    /\ UNCHANGED <<csv, bak, ledger, users, pending, clock, uploaded_files,
                   owner_password, sessions, args, ret>>

\* New Entry page, "Add to Ledger"
SubmitEntry(form, t, sfx, copy, fail) ==
    /\ PageRuns
    /\ pending = <<>>
    /\ Room
    /\ who.role # "barber" => form.barber \in barber_names
    /\ LET barber_name == IF who.role = "barber" THEN who.display ELSE form.barber
           role == IF who.role = "barber" THEN "Employee" ELSE form.role
           barber_clean == Title(Strip(barber_name))
           typed == Title(Strip(form.customer))
           customer_clean ==
               IF form.service = "Product" /\ typed = "" THEN "Walk-In" ELSE typed
           v == validate_entry(barber_clean, customer_clean, form.cost, form.date)
           new_entry ==
               [ID |-> generate_unique_id(t, sfx), Date |-> DateStr(form.date),
                Time |-> "09:00:00", Barber_Name |-> barber_clean,
                Customer_Name |-> customer_clean, Service_Type |-> form.service,
                Cost |-> CostStr(form.cost), Role |-> role, Duration_Min |-> "30"]
       IN IF v.errors # <<>>
          THEN /\ Stamp("submit", Range(v.errors))
               /\ UNCHANGED <<csv, bak, ledger, pending, clock>>
          ELSE /\ clock' = t
               /\ IF v.warnings # <<>>
                  THEN /\ pending' = <<[entry |-> new_entry, warnings |-> v.warnings]>>
                       /\ Stamp("submit", {})
                       /\ UNCHANGED <<csv, bak, ledger>>
                  ELSE /\ add_entry_to_ledger("submit", new_entry, copy, fail)
                       /\ UNCHANGED pending
    /\ UNCHANGED <<users, who>>

\* "Confirm & Save" changed to leave pending_entry in the session
MutConfirmKeepsPending(copy, fail) ==
    /\ PageRuns
    /\ pending # <<>>
    /\ Room
    /\ add_entry_to_ledger("confirm", pending[1].entry, copy, fail)
    /\ UNCHANGED <<users, who, clock, pending>>

\* New Entry page, "Confirm & Save"
Confirm(copy, fail) ==
    /\ PageRuns
    /\ pending # <<>>
    /\ Room
    /\ add_entry_to_ledger("confirm", pending[1].entry, copy, fail)
    /\ pending' = <<>>
    /\ UNCHANGED <<users, who, clock>>

\* New Entry page, "Discard"
Discard ==
    /\ PageRuns
    /\ pending # <<>>
    /\ pending' = <<>>
    /\ Stamp("discard", {})
    /\ UNCHANGED <<csv, bak, ledger, users, who, clock>>

\* the View & Manage page lists the rows only when each has these columns
ListRenders(df) ==
    {"ID", "Date", "Barber_Name", "Customer_Name", "Cost", "Service_Type"}
        \subseteq Range(df.cols)

\* Series != value: a null on either side compares as different
NotEqual(a, b) == a = NA \/ b = NA \/ a # b

\* View & Manage page, "Save Changes to Disk"
SaveChanges(copy, fail) ==
    /\ PageRuns
    /\ who.role = "owner"
    /\ get_user_ledger_raw(ledger, who).rows # <<>>
    /\ LET saved == overwrite_disk_with_session(csv, ledger, fail)
       IN /\ bak' = create_backup(csv, bak, copy)
          /\ csv' = saved.file
          /\ Stamp("save", backup_msgs(csv, copy)
                           \cup (IF saved.ok THEN {"Saved to disk!"} ELSE {"Failed to save"}))
    /\ UNCHANGED <<ledger, users, who, pending, clock>>

\* View & Manage page, "Delete" on the selected_idx-th listed entry
Delete(selected_idx, copy, fail) ==
    /\ PageRuns
    /\ LET user_df == get_user_ledger_raw(ledger, who)
       IN /\ user_df.rows # <<>>
          /\ ListRenders(user_df)
          /\ selected_idx \in 1..Len(user_df.rows)
          /\ LET id_to_delete == user_df.rows[selected_idx]["ID"]
                 left == SelectRows(ledger, LAMBDA r : NotEqual(r["ID"], id_to_delete))
                 saved == overwrite_disk_with_session(csv, left, fail)
             IN /\ ledger' = left
                /\ bak' = create_backup(csv, bak, copy)
                /\ csv' = saved.file
                /\ Stamp("delete", backup_msgs(csv, copy)
                                   \cup (IF saved.ok THEN {"Entry deleted!"}
                                         ELSE {"Failed to save"}))
    /\ UNCHANGED <<users, who, pending, clock>>

----------------------------------------------------------------------------
(* Uploaded files *)

\* pd.read_csv on an upload: any line longer than the header raises
read_csv(f) ==
    LET lines == Tokens(f)
    IN [ok |-> Readable(f) /\ \A i \in 2..Len(lines) : ~TooLong(lines, lines[i]),
        df |-> IF lines = <<>> THEN EmptyFrame ELSE FrameOf(lines, Tail(lines))]

\* df[col] = value, a column of dtype kind, followed in the callers by
\* df[REQUIRED_COLS]
SetColumn(df, col, kind, Value(_)) ==
    [cols |-> IF col \in Range(df.cols) THEN df.cols ELSE Append(df.cols, col),
     rows |-> [i \in 1..Len(df.rows) |->
                 [c \in Range(df.cols) \cup {col} |->
                     IF c = col THEN Value(i) ELSE df.rows[i][c]]],
     dt |-> [c \in Range(df.cols) \cup {col} |-> IF c = col THEN kind ELSE df.dt[c]]]

DefaultColumn(df, col, kind, value) ==
    IF col \in Range(df.cols) THEN df ELSE SetColumn(df, col, kind, LAMBDA i : value)

\* the import changed to keep the file's Barber_Name for a barber too
MutImportKeepsBarber(df, actor, run) ==
    LET named == DefaultColumn(df, "Barber_Name", "O", actor.display)
        filled == DefaultColumn(DefaultColumn(DefaultColumn(named,
                      "Role", "O", "Employee"), "Time", "O", "12:00:00"),
                      "Duration_Min", "i", "30")
        withIds == SetColumn(filled, "ID", "O", LAMBDA i : run[i].id)
    IN WithRequiredCols(withIds)

\* View & Manage page, the import of an uploaded CSV: the frame "Import All" adds
import_frame(df, actor, run) ==
    LET named == IF actor.role = "barber"
                 THEN SetColumn(df, "Barber_Name", "O", LAMBDA i : actor.display)
                 ELSE DefaultColumn(df, "Barber_Name", "O", actor.display)
        filled == DefaultColumn(DefaultColumn(DefaultColumn(named,
                      "Role", "O", "Employee"), "Time", "O", "12:00:00"),
                      "Duration_Min", "i", "30")
        withIds == SetColumn(filled, "ID", "O", LAMBDA i : run[i].id)
    IN WithRequiredCols(withIds)

ImportMinCols == {"Date", "Customer_Name", "Service_Type", "Cost"}

\* View & Manage page, file uploader and "Import All"
Import(upload, copy, fail) ==
    /\ PageRuns
    /\ LET user_df == get_user_ledger_raw(ledger, who)
       IN user_df.rows = <<>> \/ ListRenders(user_df)
    /\ Room
    /\ LET got == read_csv(upload)
       IN IF ~got.ok
          THEN /\ Stamp("import", {"Error reading file"})
               /\ UNCHANGED <<csv, bak, ledger, clock>>
          ELSE IF ImportMinCols \ Range(got.df.cols) # {}
          THEN /\ Stamp("import", {"Missing required columns"})
               /\ UNCHANGED <<csv, bak, ledger, clock>>
          ELSE \E run \in GeneratedRuns(Len(got.df.rows), clock) :
                  LET df_import == import_frame(got.df, who, run)
                      grown == concat(ledger, df_import)
                      saved == overwrite_disk_with_session(csv, grown, fail)
                  IN /\ ledger' = grown
                     /\ bak' = create_backup(csv, bak, copy)
                     /\ csv' = saved.file
                     /\ clock' = LastClock(run, clock)
                     /\ Stamp("import", backup_msgs(csv, copy)
                              \cup (IF saved.ok THEN {"Imported"}
                                    ELSE {"Failed to save",
                                          "Added to session but failed to save to disk."}))
    /\ UNCHANGED <<users, who, pending>>

----------------------------------------------------------------------------
(* Merge Ledgers page *)

MergeRequired == ReqSet \ {"Duration_Min"}

\* the check of the columns changed to ask for Duration_Min as well
MutMergeFileAllCols(f) ==
    LET got == read_csv(f)
    IN IF ~got.ok THEN [accepted |-> FALSE, df |-> EmptyFrame, said |-> "Error reading"]
       ELSE IF ReqSet \ Range(got.df.cols) # {}
       THEN [accepted |-> FALSE, df |-> EmptyFrame, said |-> "missing columns"]
       ELSE [accepted |-> TRUE, df |-> WithRequiredCols(got.df), said |-> "validated"]

\* one uploaded file of the batch: accepted with its frame, or rejected
merge_file(f) ==
    LET got == read_csv(f)
    IN IF ~got.ok THEN [accepted |-> FALSE, df |-> EmptyFrame, said |-> "Error reading"]
       ELSE IF MergeRequired \ Range(got.df.cols) # {}
       THEN [accepted |-> FALSE, df |-> EmptyFrame, said |-> "missing columns"]
       ELSE [accepted |-> TRUE,
             df |-> WithRequiredCols(DefaultColumn(got.df, "Duration_Min", "i", "30")),
             said |-> "validated"]

\* dfs: the session ledger, then every accepted file in the order given
RECURSIVE merge_dfs(_)
merge_dfs(uploads) ==
    IF uploads = <<>> THEN <<>>
    ELSE (IF merge_file(Head(uploads)).accepted
          THEN <<merge_file(Head(uploads)).df>> ELSE <<>>)
         \o merge_dfs(Tail(uploads))

\* isna() | (astype(str).str.strip() == "")
missing_id(v) == v = NA \/ Strip(AsStr(v)) = ""

missing_count(rows, n) == Cardinality({j \in 1..n : missing_id(rows[j]["ID"])})

\* merged_df.loc[missing_id_mask, "ID"] = [generate_unique_id() ...]: the
\* texts make the column an object column
fill_missing_ids(df, run) ==
    [cols |-> df.cols,
     rows |-> [i \in 1..Len(df.rows) |->
                 IF missing_id(df.rows[i]["ID"])
                 THEN [df.rows[i] EXCEPT !["ID"] = run[missing_count(df.rows, i)].id]
                 ELSE df.rows[i]],
     dt |-> IF missing_count(df.rows, Len(df.rows)) > 0
            THEN [df.dt EXCEPT !["ID"] = "O"] ELSE df.dt]

\* drop_duplicates changed to keep="last"
MutDropKeepLast(df) ==
    LET last(i) == \A j \in (i + 1)..Len(df.rows) : df.rows[j]["ID"] # df.rows[i]["ID"]
        keep == SelectSeq([i \in 1..Len(df.rows) |-> i], last)
    IN [df EXCEPT !.rows = [k \in 1..Len(keep) |-> df.rows[keep[k]]]]

\* drop_duplicates(subset=["ID"], keep="first")
drop_duplicates(df) ==
    LET first(i) == \A j \in 1..(i - 1) : df.rows[j]["ID"] # df.rows[i]["ID"]
        keep == SelectSeq([i \in 1..Len(df.rows) |-> i], first)
    IN [df EXCEPT !.rows = [k \in 1..Len(keep) |-> df.rows[keep[k]]]]

\* the concatenation the merge starts from
merge_concat(df, uploads) ==
    DefaultColumn(concat_all(<<df>> \o merge_dfs(uploads)), "ID", "O", NA)

\* the merge changed to skip the deduplication
MutMergeNoDedup(df, uploads, run) ==
    fill_missing_ids(merge_concat(df, uploads), run)

\* the merged ledger
merge_ledgers(df, uploads, run) ==
    drop_duplicates(fill_missing_ids(merge_concat(df, uploads), run))

\* Merge Ledgers page, "Merge Files"
Merge(uploads, copy, fail) ==
    /\ PageRuns
    /\ who.role = "owner"
    /\ uploads # <<>>
    /\ Len(ledger.rows) <= MaxRows
    /\ LET said == {merge_file(uploads[i]).said : i \in 1..Len(uploads)}
       IN IF merge_dfs(uploads) = <<>>
          THEN /\ StampMerge(uploads, said \cup {"No valid files to merge"})
               /\ UNCHANGED <<csv, bak, ledger, clock>>
          ELSE LET all == merge_concat(ledger, uploads)
               IN \E run \in GeneratedRuns(missing_count(all.rows, Len(all.rows)), clock) :
                     LET merged_df == merge_ledgers(ledger, uploads, run)
                         saved == overwrite_disk_with_session(csv, merged_df, fail)
                     IN /\ ledger' = merged_df
                        /\ bak' = create_backup(csv, bak, copy)
                        /\ csv' = saved.file
                        /\ clock' = LastClock(run, clock)
                        /\ StampMerge(uploads, said \cup backup_msgs(csv, copy)
                                 \cup (IF saved.ok THEN {"Merged and saved!"}
                                       ELSE {"Failed to save",
                                             "Merged but failed to save to disk"}))
    /\ UNCHANGED <<users, who, pending>>

----------------------------------------------------------------------------
(* The files and the inputs the model runs on *)

OLD_COLS == SubSeq(REQUIRED_COLS, 1, 8)

\* a header with the canonical names in another order
SWAPPED_COLS ==
    <<"Date", "ID", "Time", "Barber_Name", "Customer_Name",
      "Service_Type", "Cost", "Role", "Duration_Min">>

File(cols, lines) ==
    [st |-> "ok", cols |-> cols, rows |-> lines, eol |-> TRUE, nul |-> FALSE]

Line(id, barber, customer, cost) ==
    <<id, "2024-01-05", "09:00:00", barber, customer, "Haircut", cost, "Employee", "30">>

OldLine(id, barber, customer, cost) == SubSeq(Line(id, barber, customer, cost), 1, 8)

\* files on which read_csv raises: a quoted field that never ends
Garbage == [File(<<"\"%PDF">>, <<>>) EXCEPT !.st = "corrupt"]
DamagedStore ==
    [File(REQUIRED_COLS, <<Line("k1", "Dave", "\"Bob", "20.0")>>) EXCEPT !.st = "corrupt"]

StoreTwo ==
    File(REQUIRED_COLS, <<Line("k1", " dave ", "Bob", "20.0"), Line("k2", " eve ", "Bob", "25.0")>>)
StoreOne == File(REQUIRED_COLS, <<Line("k1", "Dave", "Bob", "20.0")>>)
StoreOld == File(OLD_COLS, <<OldLine("k1", "Dave", "Bob", "20.0")>>)
StoreRagged ==
    File(OLD_COLS, <<OldLine("k1", "Dave", "Bob", "20.0"), Line("k2", "Eve", "Bob", "25.0")>>)
StoreBlankId ==
    File(REQUIRED_COLS, <<Line("", "Dave", "Bob", "20.0"), Line("", "Eve", "Bob", "25.0")>>)
StoreSwapped ==
    File(SWAPPED_COLS, <<<<"2024-01-05", "k1", "09:00:00", "Dave", "Bob", "Haircut",
                           "20.0", "Employee", "30">>>>)

\* a file whose first line was imported with its date written month first
StoreMixedDates ==
    File(REQUIRED_COLS,
         <<[Line("k1", "Eve", "Bob", "25.0") EXCEPT ![2] = "01/05/2024"],
           Line("k2", "Dave", "Bob", "20.0")>>)

\* the durable file and the backup file a session can start from
StartFiles ==
    { <<AbsentFile, AbsentFile>>,
      <<AbsentFile, StoreOne>>,
      <<EmptyFileOnDisk, AbsentFile>>,
      <<StoreTwo, StoreOne>>,
      <<StoreOld, AbsentFile>>,
      <<StoreRagged, AbsentFile>>,
      <<StoreBlankId, AbsentFile>>,
      <<StoreSwapped, AbsentFile>>,
      <<StoreMixedDates, AbsentFile>>,
      <<Garbage, StoreOne>>,
      <<Garbage, StoreOld>>,
      <<Garbage, Garbage>>,
      <<DamagedStore, StoreTwo>> }

\* what is typed into the New Entry form
Form(customer, service, cost, date, barber, role) ==
    [customer |-> customer, service |-> service, cost |-> cost, date |-> date,
     barber |-> barber, role |-> role]

Forms ==
    { Form("bob", "Haircut", 20, Today, "Dave", "Employee"),
      Form("", "Product", 600, Today + 1, "Owner", "Owner"),
      Form("", "Haircut", 20, Today, "Dave", "Employee"),
      Form("bob", "Haircut", 20, Today, " ", "Employee"),
      Form("  ", "Product", 0, Today + 1, "Dave", "Employee") }

Logins ==
    { <<"owner", "owner">>, <<" Dave ", "pw">>, <<"dave", "owner">>, <<"nobody", "pw">> }

\* files uploaded to the import
ImportFull ==
    File(REQUIRED_COLS, <<Line("k1", "Eve", "Bob", "30.0")>>)
ImportMinimal ==
    File(<<"Date", "Customer_Name", "Service_Type", "Cost">>,
         <<<<"2024-01-06", "Bob", "Haircut", "15.0">>>>)
ImportNoCost ==
    File(<<"Date", "Customer_Name", "Service_Type">>, <<<<"2024-01-06", "Bob", "Haircut">>>>)

ImportUploads == {ImportFull, ImportNoCost}

\* files uploaded to the merge
MergeA ==
    File(REQUIRED_COLS, <<Line("k1", "Eve", "Amy", "99.0"), Line("k3", "Eve", "Amy", "40.0")>>)
MergeB ==
    File(OLD_COLS, <<OldLine("k3", "Dave", "Cy", "41.0"), OldLine("  ", "Dave", "Cy", "42.0"),
                     OldLine("", "Dave", "Cy", "43.0")>>)
MergeNoRole ==
    File(SubSeq(REQUIRED_COLS, 1, 7), <<SubSeq(Line("k4", "Eve", "Amy", "44.0"), 1, 7)>>)

MergeOne == File(REQUIRED_COLS, <<Line("k1", "Eve", "Amy", "99.0")>>)

MergeBatches == {<<MergeOne>>, <<MergeNoRole>>}

----------------------------------------------------------------------------
(* The specifications: one browser session after another on the same files *)

\* a new browser session: "ledger" and "users" are not in st.session_state,
\* so the ledger is loaded from disk and the accounts from users.json
NewSession ==
    /\ ledger' = load_data(csv, bak)
    /\ users' = initialize_default_owner(UsersJson)
    /\ who' = NoUser
    /\ pending' = <<>>
    /\ uploaded_files' = <<>>
    /\ owner_authenticated' = FALSE
    /\ owner_password' = "owner"
    /\ op' = "load"
    /\ msgs' = load_msgs(csv, bak)
    /\ UNCHANGED <<csv, bak, clock, sessions, args, ret>>

Init ==
    /\ \E files \in StartFiles :
          /\ csv = files[1]
          /\ bak = files[2]
          /\ ledger = load_data(files[1], files[2])
          /\ msgs = load_msgs(files[1], files[2])
    /\ users = initialize_default_owner(UsersJson)
    /\ who = NoUser
    /\ pending = <<>>
    /\ clock = 0
    /\ uploaded_files = <<>>
    /\ args = <<>>
    /\ ret = <<>>
    /\ owner_authenticated = FALSE
    /\ owner_password = "owner"
    /\ sessions = <<>>
    /\ op = "load"

\* the bytes a write has put into the file when it raises after the open
CutBytes == {0, 10}

\* the backup copy succeeds and no write raises
DiskWorks == {<<NoFault, NoFail>>}

\* the backup copy may raise OSError, on open or after its first bytes
CopyFaults == {OpenFails, 10}
DiskFails == ({NoFault} \cup CopyFaults) \X {NoFail}

\* Spec: the login and the New Entry and View & Manage pages, the disk working
Next ==
    \/ NewSession
    \/ \E l \in Logins : Login(l[1], l[2])
    \/ Logout
    \/ \E form \in Forms, t \in clock..MaxClock, sfx \in Suffixes, d \in DiskWorks :
           SubmitEntry(form, t, sfx, d[1], d[2])
    \/ \E d \in DiskWorks : Confirm(d[1], d[2])
    \/ Discard
    \/ \E d \in DiskWorks : SaveChanges(d[1], d[2])
    \/ \E i \in 1..Len(ledger.rows), d \in DiskWorks : Delete(i, d[1], d[2])

Spec == Init /\ [][Next]_vars

\* SpecDisk: every handler that writes the file, on a disk that may fail
DiskStartFiles ==
    { <<AbsentFile, AbsentFile>>,
      <<AbsentFile, StoreOne>>,
      <<StoreOne, AbsentFile>>,
      <<StoreOld, StoreOne>>,
      <<Garbage, StoreOne>> }

DiskForms ==
    { Form("bob", "Haircut", 20, Today, "Dave", "Employee"),
      Form("", "Product", 600, Today + 1, "Owner", "Owner") }

InitDisk ==
    /\ \E files \in DiskStartFiles :
          /\ csv = files[1]
          /\ bak = files[2]
          /\ ledger = load_data(files[1], files[2])
          /\ msgs = load_msgs(files[1], files[2])
    /\ users = initialize_default_owner(UsersJson)
    /\ who = NoUser
    /\ pending = <<>>
    /\ clock = 0
    /\ uploaded_files = <<>>
    /\ args = <<>>
    /\ ret = <<>>
    /\ owner_authenticated = FALSE
    /\ owner_password = "owner"
    /\ sessions = <<>>
    /\ op = "load"

NextDisk ==
    \/ Login("owner", "owner")
    \/ \E form \in DiskForms, d \in DiskFails :
           SubmitEntry(form, clock, "a1", d[1], d[2])
    \/ \E d \in DiskFails : Confirm(d[1], d[2])
    \/ Discard
    \/ \E d \in DiskFails : SaveChanges(d[1], d[2])
    \/ \E i \in 1..Len(ledger.rows), d \in DiskFails : Delete(i, d[1], d[2])
    \/ \E d \in DiskFails : Import(ImportFull, d[1], d[2]) /\ clock' = clock
    \/ \E d \in DiskFails : Room /\ Merge(<<MergeOne>>, d[1], d[2])

SpecDisk == InitDisk /\ [][NextDisk]_vars

\* SpecMerge: the owner merging batches of uploaded files, the disk working
MergeStartFiles ==
    { <<AbsentFile, AbsentFile>>,
      <<StoreOne, AbsentFile>>,
      <<StoreTwo, StoreOne>>,
      <<StoreBlankId, AbsentFile>>,
      <<Garbage, StoreOld>> }

InitMerge ==
    /\ \E files \in MergeStartFiles :
          /\ csv = files[1]
          /\ bak = files[2]
          /\ ledger = load_data(files[1], files[2])
          /\ msgs = load_msgs(files[1], files[2])
    /\ users = initialize_default_owner(UsersJson)
    /\ who = NoUser
    /\ pending = <<>>
    /\ clock = 0
    /\ uploaded_files = <<>>
    /\ args = <<>>
    /\ ret = <<>>
    /\ owner_authenticated = FALSE
    /\ owner_password = "owner"
    /\ sessions = <<>>
    /\ op = "load"

AllMergeBatches ==
    { <<MergeA>>, <<MergeB>>, <<MergeA, MergeB>>, <<MergeB, MergeA>>,
      <<MergeNoRole, MergeB>>, <<MergeNoRole>>, <<Garbage, MergeA>>,
      <<Garbage>>, <<Garbage, MergeNoRole>> }

NextMerge ==
    \/ Login("owner", "owner")
    \/ \E uploads \in AllMergeBatches : Merge(uploads, NoFault, NoFail)

SpecMerge == InitMerge /\ [][NextMerge]_vars

----------------------------------------------------------------------------
(* Properties *)

\* the same value: an integer and the float it is cast to are one number
SameValue(a, b) == FloatOf(a) = FloatOf(b)

\* two lines of a file, or two files' lines, hold the same values
SameCells(a, b) ==
    /\ Len(a) = Len(b)
    /\ \A k \in 1..Len(a) : SameValue(a[k], b[k])
SameLines(lines, others) ==
    /\ Len(lines) = Len(others)
    /\ \A i \in 1..Len(lines) : SameCells(lines[i], others[i])

LastRow(df) == df.rows[Len(df.rows)]

\* what a handler reports once it has gone through create_backup and a write
WriteReports ==
    {"Entry added", "Failed to save entry", "Saved to disk!", "Failed to save",
     "Entry deleted!", "Imported", "Merged and saved!"}

\* the step is an add, a save, a delete, an import or a merge that wrote
WritingStep ==
    /\ op' \in {"submit", "confirm", "save", "delete", "import", "merge"}
    /\ msgs' \cap WriteReports # {}

\* C1 as stated: after every operation that writes the durable file, the
\* backup file equals the durable file as it was just before the operation.
C1_BackupIsPriorStore ==
    [][WritingStep => bak' = csv]_vars

\* the text a is a leading part of the text b, or all of it
LeadingPart(a, b) == Len(a) <= Len(b) /\ a = Prefix(b, Len(a))

\* C1: after an operation that writes the durable file, the backup file
\* equals the durable file as it was just before the operation when that
\* file existed and the copy did not fail; when the file did not exist the
\* backup file is what it was; a failed copy is reported as a warning and
\* leaves the backup file as it was or with a leading part of the file, and
\* the write still follows: the file ends with the added entry (unless its
\* header is stale and it cannot be parsed), or holds the ledger after a
\* save, a delete, an import or a merge.
C1_BackupIsPriorStoreWhenCopied ==
    [][WritingStep =>
          /\ (csv.st # "absent" /\ "Could not create backup" \notin msgs') => bak' = csv
          /\ csv.st = "absent" =>
                /\ bak' = bak
                /\ "Could not create backup" \notin msgs'
          /\ "Could not create backup" \in msgs' =>
                /\ csv.st # "absent"
                /\ \/ bak' = bak
                   \/ bak'.st # "absent" /\ LeadingPart(TextOf(bak'), TextOf(csv))
                /\ IF op' \in {"submit", "confirm"}
                   THEN \/ "Failed to save entry" \in msgs' /\ ~Readable(csv) /\ csv' = csv
                        \/ /\ "Entry added" \in msgs'
                           /\ csv'.st = "ok"
                           /\ SameCells(LastRow(csv'),
                                        CellsOf(LastRow(ledger'), REQUIRED_COLS))
                   ELSE csv' = to_csv(ledger')]_vars

\* a delete was written after a successful copy: the backup still holds the
\* line the file has lost
C1_Witness ==
    /\ op = "delete"
    /\ msgs = {"Entry deleted!"}
    /\ bak.st = "ok"
    /\ csv.st = "ok"
    /\ Len(bak.rows) = Len(csv.rows) + 1

----------------------------------------------------------------------------
\* what the pages show an actor of a ledger: the sidebar's record count, the
\* rows behind the entry list, the delete options and the CSV download (cell
\* by cell over the canonical columns), and the rows the analytics start from
Observed(df, actor) ==
    <<user_record_count(df, actor),
      WithRequiredCols(get_user_ledger_raw(df, actor)).rows,
      get_user_ledger(df, actor).rows>>

\* the row's barber name, trimmed and case-folded, is the actor's display name
Mine(r, actor) == Lower(Strip(AsStr(r["Barber_Name"]))) = Lower(actor.display)

\* rows of other barbers that could be in the ledger as well
OtherRows(actor) ==
    LET line(name, cost) ==
            [c \in ReqSet |->
                CASE c = "ID" -> "k7"
                  [] c = "Barber_Name" -> name
                  [] c = "Cost" -> cost
                  [] c = "Date" -> "2024-01-05"
                  [] c = "Time" -> "09:00:00"
                  [] c = "Customer_Name" -> "Bob"
                  [] c = "Service_Type" -> "Haircut"
                  [] c = "Role" -> "Employee"
                  [] OTHER -> "30"]
    IN {r \in {line(n, c) : n \in {"Eve", " eve ", "Owner", " Dave ", NA}, c \in {"25.0", "bad"}} :
            ~Mine(r, actor)}

Without(df, i) ==
    [df EXCEPT !.rows = SubSeq(df.rows, 1, i - 1) \o SubSeq(df.rows, i + 1, Len(df.rows))]

\* C2 as stated: whenever the pages run for a non-owner, the record count,
\* the listed rows and the analytics rows are made of exactly the ledger
\* rows whose barber name, trimmed and case-folded, equals the actor's
\* display name, and adding, removing or changing a row of another barber
\* leaves all of them as they are; for the owner they are made of every row.
C2_VisibleRowsOnly ==
    PageRuns =>
        IF who.role = "owner"
        THEN /\ get_user_ledger_raw(ledger, who) = ledger
             /\ user_record_count(ledger, who) = Len(ledger.rows)
             /\ get_user_ledger(ledger, who) = get_clean_ledger(ledger)
        ELSE /\ get_user_ledger_raw(ledger, who).rows
                    = SelectSeq(ledger.rows, LAMBDA r : Mine(r, who))
             /\ user_record_count(ledger, who)
                    = Cardinality({i \in 1..Len(ledger.rows) : Mine(ledger.rows[i], who)})
             /\ \A r \in Range(get_user_ledger(ledger, who).rows) : Mine(r, who)
             /\ \A other \in OtherRows(who) :
                    Observed(concat(ledger, EntryFrame(other)), who) = Observed(ledger, who)
             /\ \A i \in 1..Len(ledger.rows) :
                    ~Mine(ledger.rows[i], who) =>
                        /\ Observed(Without(ledger, i), who) = Observed(ledger, who)
                        /\ \A other \in OtherRows(who) :
                               Observed(concat(Without(ledger, i), EntryFrame(other)), who)
                                   = Observed(ledger, who)

\* the same, for the ledgers none of whose dates is written month first
VisibleRowsOnlyOneDateFormat ==
    (\A i \in 1..Len(ledger.rows) : ledger.rows[i]["Date"] # "01/05/2024") =>
        C2_VisibleRowsOnly

----------------------------------------------------------------------------
\* the rows a merge starts from, in the order the claim gives: the session
\* ledger's, then those of each accepted file in the order of the upload
RECURSIVE JoinRows(_)
JoinRows(dfs) ==
    IF dfs = <<>> THEN <<>> ELSE Head(dfs).rows \o JoinRows(Tail(dfs))

RowsToMerge(uploads) == JoinRows(<<ledger>> \o merge_dfs(uploads))

IdOf(r) == IF "ID" \in DOMAIN r THEN r["ID"] ELSE NA

\* a null, empty or whitespace-only identifier
BlankId(v) == v \in {NA, "", " ", "  "}

\* every identifier generate_unique_id can return in the model
GeneratedIds == {generate_unique_id(t, x) : t \in 0..MaxClock, x \in Suffixes}

\* the kept row has the values of the row r
Agree(kept, r) == \A c \in DOMAIN r : SameValue(kept[c], r[c])
AgreeButId(kept, r) == \A c \in DOMAIN r \ {"ID"} : SameValue(kept[c], r[c])

\* the step is a merge of the batch uploads that replaced the ledger
Merged(uploads) ==
    /\ op' = "merge"
    /\ uploaded_files' = uploads
    /\ "Merged and saved!" \in msgs'

\* C3: after a merge, each identifier of the rows merged is the identifier
\* of exactly one row of the ledger, that row has the cells of the first row
\* carrying the identifier in the order ledger, first file, second file, ...
\* (so the ledger's row wins over a file's, and an earlier file's over a
\* later one's), and the kept rows stand in that order.
C3_FirstOccurrenceWins ==
    [][\A uploads \in AllMergeBatches :
          Merged(uploads) =>
             LET flat == RowsToMerge(uploads)
                 ids == {IdOf(flat[i]) : i \in 1..Len(flat)} \ {NA, "", " ", "  "}
                 FirstAt(x) == CHOOSE i \in 1..Len(flat) :
                                  /\ IdOf(flat[i]) = x
                                  /\ \A j \in 1..(i - 1) : IdOf(flat[j]) # x
                 Kept(x) == {k \in 1..Len(ledger'.rows) : ledger'.rows[k]["ID"] = x}
             IN /\ \A x \in ids :
                      /\ Cardinality(Kept(x)) = 1
                      /\ \A k \in Kept(x) : Agree(ledger'.rows[k], flat[FirstAt(x)])
                /\ \A x, y \in ids :
                      FirstAt(x) < FirstAt(y) =>
                          \A k \in Kept(x), m \in Kept(y) : k < m]_vars

\* the ledger's row k1 was kept over an uploaded k1, and the k3 of the file
\* uploaded first over the k3 of the file uploaded second
C3_Witness ==
    /\ op = "merge"
    /\ uploaded_files = <<MergeB, MergeA>>
    /\ "Merged and saved!" \in msgs
    /\ \E i, j \in 1..Len(ledger.rows) :
          /\ i < j
          /\ ledger.rows[i]["ID"] = "k1"
          /\ ledger.rows[i]["Customer_Name"] = "Bob"
          /\ ledger.rows[j]["ID"] = "k3"
          /\ ledger.rows[j]["Cost"] = "41.0"
    /\ Len(ledger.rows) >= 4

\* C4 as stated: after a merge, every row that had a blank identifier (null,
\* empty or whitespace only) is a row of the ledger and carries a generated
\* identifier that no row merged carried and that no other row was given;
\* every other row carries its own identifier; no ledger row has a blank
\* identifier and no two share one.  The ledger holds, in order, the rows
\* whose identifier, given or own, is not that of an earlier row.
C4_BlankIdsFresh ==
    [][\A uploads \in AllMergeBatches :
          Merged(uploads) =>
             LET flat == RowsToMerge(uploads)
                 blank == {i \in 1..Len(flat) : BlankId(IdOf(flat[i]))}
                 own == {IdOf(flat[i]) : i \in (1..Len(flat)) \ blank}
                 n == Len(ledger'.rows)
             IN /\ \A k \in 1..n : ~BlankId(ledger'.rows[k]["ID"])
                /\ \A k, m \in 1..n : k # m => ledger'.rows[k]["ID"] # ledger'.rows[m]["ID"]
                /\ \E given \in [blank -> GeneratedIds \ own] :
                      LET id(i) == IF i \in blank THEN given[i] ELSE IdOf(flat[i])
                          first == {i \in 1..Len(flat) : \A j \in 1..(i - 1) : id(j) # id(i)}
                          nth(i) == Cardinality({j \in first : j <= i})
                      IN /\ \A i, j \in blank : i # j => given[i] # given[j]
                         /\ blank \subseteq first
                         /\ n = Cardinality(first)
                         /\ \A i \in first :
                               /\ ledger'.rows[nth(i)]["ID"] = id(i)
                               /\ AgreeButId(ledger'.rows[nth(i)], flat[i])]_vars

\* what the merge does keep of it: no ledger row has a blank identifier and
\* no two share one; each row that had a blank identifier was given some
\* generated identifier and every other row kept its own; and the ledger
\* holds, in order, the rows whose identifier is not that of an earlier row.
\* A row whose generated identifier repeats an earlier one is dropped.
BlankIdsFilledOrDropped ==
    [][\A uploads \in AllMergeBatches :
          Merged(uploads) =>
             LET flat == RowsToMerge(uploads)
                 blank == {i \in 1..Len(flat) : BlankId(IdOf(flat[i]))}
                 n == Len(ledger'.rows)
             IN /\ \A k \in 1..n : ~BlankId(ledger'.rows[k]["ID"])
                /\ \A k, m \in 1..n : k # m => ledger'.rows[k]["ID"] # ledger'.rows[m]["ID"]
                /\ \E given \in [blank -> GeneratedIds] :
                      LET id(i) == IF i \in blank THEN given[i] ELSE IdOf(flat[i])
                          first == {i \in 1..Len(flat) : \A j \in 1..(i - 1) : id(j) # id(i)}
                          nth(i) == Cardinality({j \in first : j <= i})
                      IN /\ n = Cardinality(first)
                         /\ \A i \in first :
                               /\ ledger'.rows[nth(i)]["ID"] = id(i)
                               /\ AgreeButId(ledger'.rows[nth(i)], flat[i])]_vars

\* a merge of a file with two rows without identifier left the first of them
\* only: the second was given the same generated identifier and was dropped
BlankIdRowDropped ==
    /\ op = "merge"
    /\ uploaded_files = <<MergeB>>
    /\ "Merged and saved!" \in msgs
    /\ \E k \in 1..Len(ledger.rows) : ledger.rows[k]["Cost"] = "42.0"
    /\ \A k \in 1..Len(ledger.rows) : ledger.rows[k]["Cost"] # "43.0"

----------------------------------------------------------------------------
\* C5 as stated: in every state no two rows of the ledger have the same
\* identifier, and no two lines of the durable file have.
C5_UniqueIds ==
    /\ \A i, j \in 1..Len(ledger.rows) :
          i # j => IdOf(ledger.rows[i]) # IdOf(ledger.rows[j])
    /\ (csv.st = "ok" /\ "ID" \in Range(csv.cols)) =>
          \A i, j \in 1..Len(csv.rows) :
             i # j => RowOf(csv.rows[i], csv.cols)["ID"] # RowOf(csv.rows[j], csv.cols)["ID"]

\* C6: a load always gives a ledger: the parsed durable file when it can be
\* read; the backup file's rows when the durable file exists but cannot be
\* read and the backup can; and the empty ledger with the canonical columns
\* when neither can be read or when there is no durable file.
C6_LoadFallbackChain ==
    op = "load" =>
        /\ csv.st = "ok" =>
              /\ ledger = WithRequiredCols(_read_csv_robust(csv))
              /\ msgs = {}
        /\ (csv.st \notin {"ok", "absent"} /\ bak.st = "ok") =>
              /\ ledger.rows = _read_csv_robust(bak).rows
              /\ msgs = {"Error loading", "Loading from backup"}
        /\ (csv.st \notin {"ok", "absent"} /\ bak.st # "ok") =>
              /\ ledger = EmptyFrame
              /\ "Error loading" \in msgs
        /\ csv.st = "absent" =>
              /\ ledger = EmptyFrame
              /\ msgs = {}

\* a load found the durable file unreadable and took the rows of the backup
C6_Witness ==
    /\ op = "load"
    /\ csv.st = "corrupt"
    /\ bak.st = "ok"
    /\ ledger.rows # <<>>
    /\ "Loading from backup" \in msgs

\* C7 as stated: whatever path a load takes, the ledger it gives has exactly
\* the canonical columns, in the canonical order.
C7_LoadCanonicalColumns ==
    op = "load" =>
        /\ ledger.cols = REQUIRED_COLS
        /\ \A i \in 1..Len(ledger.rows) : DOMAIN ledger.rows[i] = ReqSet

----------------------------------------------------------------------------
\* the step is an add from the New Entry page whose append returned
AppendStep ==
    /\ op' \in {"submit", "confirm"}
    /\ "Entry added" \in msgs'

\* the file can be read and its header is not the canonical column set
OlderSchema(f) ==
    /\ f.st = "ok"
    /\ Range(f.cols) # ReqSet

HeaderMatches(f) == f.st \in {"ok", "corrupt"} /\ Range(f.cols) = ReqSet

\* C8 as stated: an append to a file written under an older header leaves
\* the file with the canonical header, every line it had, with the values
\* it had under the columns it had and blank under the added ones, and the
\* new entry as its last line in the canonical order; an append to a file
\* whose header has the canonical names leaves header and lines as they
\* were and adds the entry as one last line.
C8_AppendMigratesHeader ==
    [][AppendStep =>
          LET line == CellsOf(LastRow(ledger'), REQUIRED_COLS)
              n == Len(csv.rows)
              old(i, k) ==
                  IF REQUIRED_COLS[k] \in Range(csv.cols)
                     /\ ColIndex(csv.cols, REQUIRED_COLS[k]) <= Len(csv.rows[i])
                  THEN csv.rows[i][ColIndex(csv.cols, REQUIRED_COLS[k])]
                  ELSE ""
          IN /\ OlderSchema(csv) =>
                   /\ csv'.cols = REQUIRED_COLS
                   /\ Len(csv'.rows) = n + 1
                   /\ \A i \in 1..n :
                         SameCells(csv'.rows[i],
                                   [k \in 1..Len(REQUIRED_COLS) |-> old(i, k)])
                   /\ SameCells(csv'.rows[n + 1], line)
             /\ HeaderMatches(csv) =>
                   /\ csv'.cols = csv.cols
                   /\ Len(csv'.rows) = n + 1
                   /\ SubSeq(csv'.rows, 1, n) = csv.rows
                   /\ SameCells(csv'.rows[n + 1], line)]_vars

\* the conditions the claims give for a hard error and for a warning
HardError(form, actor) ==
    LET barber == IF actor.role = "barber" THEN actor.display ELSE form.barber
        customer == IF form.service = "Product" /\ Strip(form.customer) = ""
                    THEN "Walk-In" ELSE Strip(form.customer)
    IN Strip(barber) = "" \/ customer = "" \/ form.cost <= 0

Warned(form) ==
    form.cost > 500 \/ (0 < form.cost /\ form.cost < 5) \/ form.date > Today

Submitted(form) ==
    \E t \in 0..MaxClock, sfx \in Suffixes : SubmitEntry(form, t, sfx, NoFault, NoFail)

Occurrences(lines, line) == Cardinality({i \in 1..Len(lines) : lines[i] = line})

\* the line of the file a held entry is written as
HeldLine == CellsOf(pending[1].entry, REQUIRED_COLS)

\* the step appended the held entry as one last line of the file
ConfirmAppended ==
    /\ "Entry added" \in msgs'
    /\ LastRow(csv') = HeldLine
    /\ Occurrences(csv'.rows, HeldLine) = Occurrences(csv.rows, HeldLine) + 1

\* the step reported that the save failed and left the file as it was, a
\* file with a stale header that cannot be parsed
ConfirmNotSaved ==
    /\ {"Failed to save entry", "Added to session but failed to save to disk"}
           \subseteq msgs'
    /\ "Entry added" \notin msgs'
    /\ csv' = csv
    /\ csv.st \notin {"absent", "empty"}
    /\ Range(csv.cols) # ReqSet
    /\ ~Readable(csv)

\* the confirm flow, a Confirm step doing to the file what saved says: within
\* a session, an entry comes to be held only by a submission that reports no
\* error and carries a warning, and ledger, file and backup stay as they
\* are; every submission without error and with a warning makes its entry
\* held; a held entry stays held until Confirm or Discard; Confirm adds
\* exactly the held entry as the last row of the ledger and holds nothing
\* afterwards; Discard leaves ledger, file and backup as they are and holds
\* nothing afterwards.
ConfirmFlowStep(saved) ==
    /\ (pending = <<>> /\ pending' # <<>>) =>
          /\ op' = "submit"
          /\ msgs' = {}
          /\ pending'[1].warnings # <<>>
          /\ UNCHANGED <<ledger, csv, bak>>
    /\ \A form \in Forms :
          (op' = "submit" /\ ~HardError(form, who) /\ Warned(form)
           /\ Submitted(form)) =>
              /\ pending = <<>>
              /\ pending' # <<>>
              /\ UNCHANGED <<ledger, csv, bak>>
    /\ op' = "confirm" => pending # <<>>
    /\ (pending # <<>> /\ op' # "load") =>
          \/ pending' = pending /\ op' \notin {"confirm", "discard"}
          \/ /\ op' = "confirm"
             /\ pending' = <<>>
             /\ Len(ledger'.rows) = Len(ledger.rows) + 1
             /\ \A i \in 1..Len(ledger.rows) : Agree(ledger'.rows[i], ledger.rows[i])
             /\ Agree(LastRow(ledger'), pending[1].entry)
             /\ saved
          \/ /\ op' = "discard"
             /\ pending' = <<>>
             /\ UNCHANGED <<ledger, csv, bak>>

\* C9 as stated: the confirm flow, every Confirm appending the held entry to
\* the file as one last line.
C9_ConfirmAppends ==
    [][ConfirmFlowStep(ConfirmAppended)]_vars

\* C9: the confirm flow, a Confirm appending the held entry to the file as
\* one last line unless the save fails; the failure is then reported, the
\* entry is in the ledger only and nothing is held.  With the disk working
\* the save fails only on a file with a stale header that cannot be parsed,
\* which is left as it was.
C9_ConfirmFlow ==
    [][ConfirmFlowStep(ConfirmAppended \/ ConfirmNotSaved)]_vars

\* a held Walk-In entry was confirmed: nothing is held, and the entry is the
\* last row of the ledger and the last line of the file
C9_Witness ==
    /\ op = "confirm"
    /\ "Entry added" \in msgs
    /\ pending = <<>>
    /\ ledger.rows # <<>>
    /\ LastRow(ledger)["Customer_Name"] = "Walk-In"
    /\ LastRow(csv) = CellsOf(LastRow(ledger), REQUIRED_COLS)

\* C10: a submission with an empty barber name, an empty customer name
\* after the Walk-In fill, or a cost of 0 or less reports an error and leaves
\* ledger, file, backup and held entry as they are; and every entry the New
\* Entry page adds or holds has a barber name, a customer name and a cost
\* above 0.
C10_ErrorsBlockTheEntry ==
    [][/\ \A form \in Forms :
             (op' = "submit" /\ HardError(form, who) /\ Submitted(form)) =>
                 /\ msgs' # {}
                 /\ UNCHANGED <<ledger, csv, bak, pending>>
       /\ LET sound(e) ==
                 /\ e["Barber_Name"] \notin {NA, "", " ", "  "}
                 /\ e["Customer_Name"] \notin {NA, "", " ", "  "}
                 /\ \E form \in Forms : form.cost > 0 /\ e["Cost"] = CostStr(form.cost)
          IN /\ (op' \in {"submit", "confirm"} /\ ledger' # ledger) => sound(LastRow(ledger'))
             /\ (op' = "submit" /\ pending' # <<>>) => sound(pending'[1].entry)]_vars

\* a submission was refused for its customer name, on a ledger and a file
\* that hold an entry
C10_Witness ==
    /\ op = "submit"
    /\ "Customer name is required" \in msgs
    /\ pending = <<>>
    /\ ledger.rows # <<>>
    /\ csv.st = "ok"

----------------------------------------------------------------------------
(* validate_entry called on its own *)

\* the session a function is called in when only the call matters
IdleSession ==
    /\ csv = AbsentFile
    /\ bak = AbsentFile
    /\ ledger = EmptyFrame
    /\ users = initialize_default_owner(UsersJson)
    /\ who = NoUser
    /\ pending = <<>>
    /\ clock = 0
    /\ uploaded_files = <<>>
    /\ msgs = {}

ValidateInputs ==
    [barber : {"", " ", "Dave"}, customer : {"", "Bob"},
     cost : {-1, 0, 1, 4, 5, 20, 500, 501},
     entry_date : {Today - 1, Today, Today + 1}]

InitValidate ==
    /\ IdleSession
    /\ args \in ValidateInputs
    /\ ret = <<>>
    /\ owner_authenticated = FALSE
    /\ owner_password = "owner"
    /\ sessions = <<>>
    /\ op = "input"

CallValidate ==
    /\ op = "input"
    /\ ret' = validate_entry(args.barber, args.customer, args.cost, args.entry_date)
    /\ op' = "validate_entry"
    /\ UNCHANGED <<csv, bak, ledger, users, who, pending, clock, uploaded_files,
                   owner_authenticated, owner_password, sessions, args, msgs>>

NextValidate == CallValidate

SpecValidate == InitValidate /\ [][NextValidate]_vars

\* how many of the conditions hold
HowMany(conds) == Cardinality({i \in 1..Len(conds) : conds[i]})

\* C11: validate_entry returns is_valid true exactly when it returns no
\* error; its errors are, once each and nothing else, one for an empty
\* barber, one for an empty customer and one for a cost of 0 or less; its
\* warnings are, once each and nothing else, one for a cost above 500, one
\* for a cost above 0 and below 5 and one for a date after today; so the
\* errors depend on barber, customer and cost only and the warnings on cost
\* and date only.
C11_ValidateEntry ==
    op = "validate_entry" =>
        LET e == ret.errors
            w == ret.warnings
            has(list, text) == Cardinality({i \in 1..Len(list) : list[i] = text})
        IN /\ ret.is_valid = (e = <<>>)
           /\ has(e, "Barber name is required") = (IF args.barber = "" THEN 1 ELSE 0)
           /\ has(e, "Customer name is required") = (IF args.customer = "" THEN 1 ELSE 0)
           /\ has(e, "Cost must be greater than $0") = (IF args.cost <= 0 THEN 1 ELSE 0)
           /\ Len(e) = HowMany(<<args.barber = "", args.customer = "", args.cost <= 0>>)
           /\ has(w, "Cost is unusually high") = (IF args.cost > 500 THEN 1 ELSE 0)
           /\ has(w, "Cost is unusually low") = (IF 0 < args.cost /\ args.cost < 5 THEN 1 ELSE 0)
           /\ has(w, "Date is in the future") = (IF args.entry_date > Today THEN 1 ELSE 0)
           /\ Len(w) = HowMany(<<args.cost > 500, 0 < args.cost /\ args.cost < 5,
                                  args.entry_date > Today>>)

\* a call returned two errors together with a warning
C11_Witness ==
    /\ op = "validate_entry"
    /\ ~ret.is_valid
    /\ Len(ret.errors) = 2
    /\ ret.warnings = <<"Date is in the future">>

----------------------------------------------------------------------------
(* The merge computation called on its own, in both orders and twice *)

MergeC ==
    File(OLD_COLS, <<OldLine("k3", "Dave", "Cy", "41.0"), OldLine("k5", "Dave", "Cy", "45.0")>>)
MergeD == File(REQUIRED_COLS, <<Line("k6", "Eve", "Amy", "46.0")>>)

\* uploaded tables whose rows all carry an identifier
MergeTables == {MergeA, MergeC, MergeD, MergeOne, MergeNoRole}

\* the session ledgers the tables are merged into
MergeLedgers ==
    {load_data(AbsentFile, AbsentFile), load_data(StoreOne, AbsentFile),
     load_data(StoreTwo, AbsentFile), load_data(Garbage, StoreOld),
     load_data(StoreBlankId, AbsentFile)}

\* the ledgers one "Merge Files" on the file f can leave
MergeOutcomes(df, f) ==
    IF merge_dfs(<<f>>) = <<>> THEN {df}
    ELSE LET all == merge_concat(df, <<f>>)
         IN {merge_ledgers(df, <<f>>, run) :
                run \in GeneratedRuns(missing_count(all.rows, Len(all.rows)), 0)}

InitCommute ==
    /\ IdleSession
    /\ args \in [ledger : MergeLedgers, a : MergeTables, b : MergeTables]
    /\ ret = <<>>
    /\ owner_authenticated = FALSE
    /\ owner_password = "owner"
    /\ sessions = <<>>
    /\ op = "input"

\* the first merge of each order: a into the ledger, b into the ledger
CallMergeFirst ==
    /\ op = "input"
    /\ \E x \in MergeOutcomes(args.ledger, args.a), y \in MergeOutcomes(args.ledger, args.b) :
          ret' = [a |-> x, b |-> y]
    /\ op' = "merge_first"
    /\ UNCHANGED <<csv, bak, ledger, users, who, pending, clock, uploaded_files,
                   owner_authenticated, owner_password, sessions, args, msgs>>

\* the second merge: b after a, a after b, and a once more after a
CallMergeSecond ==
    /\ op = "merge_first"
    /\ \E x \in MergeOutcomes(ret.a, args.b), y \in MergeOutcomes(ret.b, args.a),
          z \in MergeOutcomes(ret.a, args.a) :
          ret' = [a |-> ret.a, ab |-> x, ba |-> y, aa |-> z]
    /\ op' = "merge_second"
    /\ UNCHANGED <<csv, bak, ledger, users, who, pending, clock, uploaded_files,
                   owner_authenticated, owner_password, sessions, args, msgs>>

NextCommute == CallMergeFirst \/ CallMergeSecond

SpecCommute == InitCommute /\ [][NextCommute]_vars

IdsOf(rows) == {IdOf(rows[i]) : i \in 1..Len(rows)}

NoBlankIds(rows) == \A i \in 1..Len(rows) : ~BlankId(IdOf(rows[i]))

\* the rows a table contributes to a merge
Contributed(f) == IF merge_file(f).accepted THEN merge_file(f).df.rows ELSE <<>>

\* C12 as stated: into a ledger without blank identifiers, merging a then b
\* leaves the same set of ledger rows as merging b then a, and merging a a
\* second time leaves the ledger as the first merge left it.
C12_MergeCommutes ==
    (op = "merge_second" /\ NoBlankIds(args.ledger.rows)) =>
        /\ Range(ret.ab.rows) = Range(ret.ba.rows)
        /\ ret.aa = ret.a

\* C12: merging a a second time leaves the ledger as the first merge left
\* it; and when ledger and tables carry no blank identifier, merging a then
\* b leaves the same set of identifiers as merging b then a, the same row
\* under every identifier except those that a and b both carry with
\* different rows and the ledger did not carry, and under such an
\* identifier the row of the table merged first.
C12_MergeCommutesOnIds ==
    op = "merge_second" =>
        /\ ret.aa = ret.a
        /\ NoBlankIds(args.ledger.rows) =>
              LET ra == Contributed(args.a)
                  rb == Contributed(args.b)
                  clash == {x \in (IdsOf(ra) \cap IdsOf(rb)) \ IdsOf(args.ledger.rows) :
                               \E i \in 1..Len(ra), j \in 1..Len(rb) :
                                  /\ IdOf(ra[i]) = x
                                  /\ IdOf(rb[j]) = x
                                  /\ ra[i] # rb[j]}
                  rest(rows) == {r \in Range(rows) : IdOf(r) \notin clash}
                  under(rows, x) == {r \in Range(rows) : IdOf(r) = x}
              IN /\ IdsOf(ret.ab.rows) = IdsOf(ret.ba.rows)
                 /\ rest(ret.ab.rows) = rest(ret.ba.rows)
                 /\ \A x \in clash :
                       /\ \A r \in under(ret.ab.rows, x) : \E i \in 1..Len(ra) : Agree(r, ra[i])
                       /\ \A r \in under(ret.ba.rows, x) : \E j \in 1..Len(rb) : Agree(r, rb[j])
                       /\ Cardinality(under(ret.ab.rows, x)) = 1
                       /\ Cardinality(under(ret.ba.rows, x)) = 1

\* two tables that carry k3 with different rows were merged in both orders
\* into a ledger that carries k1, each order keeping another k3
C12_Witness ==
    /\ op = "merge_second"
    /\ args.a = MergeA
    /\ args.b = MergeC
    /\ "k1" \in IdsOf(args.ledger.rows)
    /\ Range(ret.ab.rows) # Range(ret.ba.rows)
    /\ IdsOf(ret.ab.rows) = {"k1", "k3", "k5"}
    /\ ret.aa = ret.a

----------------------------------------------------------------------------
(* C13: the files of a merge batch that are turned down *)

\* the file cannot be parsed as a table
CannotBeRead(f) == ~read_csv(f).ok

\* the file can be read and its header lacks a name other than Duration_Min
LacksColumn(f) ==
    /\ ~CannotBeRead(f)
    /\ \E c \in Range(OLD_COLS) : c \notin Range(f.cols)

TurnedDown(f) == CannotBeRead(f) \/ LacksColumn(f)

\* the rows of a file that is not turned down, as the merge is to take
\* them: the cells of the file, and 30 as duration when the header has none
RowsOffered(f) ==
    [i \in 1..Len(f.rows) |->
        [c \in ReqSet |->
            IF c \in Range(f.cols) THEN RowOf(f.rows[i], f.cols)[c]
            ELSE IF c = "Duration_Min" THEN "30" ELSE NA]]

\* the rows a ledger row can come from after the batch: the ledger's, and
\* those offered by the files that are not turned down
SourcesOf(uploads) ==
    Range(ledger.rows) \cup
    UNION {Range(RowsOffered(uploads[i])) :
              i \in {j \in 1..Len(uploads) : ~TurnedDown(uploads[j])}}

\* C13: in a "Merge Files" on a batch, (1) a file that cannot be read is
\* reported as an error of reading and a file lacking a column other than
\* Duration_Min as missing columns; (2) when every file is turned down, the
\* ledger, the file and the backup are as before and "No valid files" is
\* said; (3) otherwise every ledger row has, but for its identifier, the
\* cells of a ledger row or of a row offered by a file not turned down (so
\* none comes from a file turned down), and (4) every row with an identifier
\* offered by a file not turned down, a file without Duration_Min included,
\* has its identifier in the ledger, on a row with the offered cells (30 as
\* duration) unless the ledger or another file of the batch carries that
\* identifier too.
C13_BatchRejection ==
    [][\A uploads \in AllMergeBatches :
          (op' = "merge" /\ uploaded_files' = uploads) =>
             LET idx == 1..Len(uploads)
                 taken == {i \in idx : ~TurnedDown(uploads[i])}
                 Others(i) == IdsOf(ledger.rows) \cup
                              UNION {IdsOf(RowsOffered(uploads[j])) : j \in taken \ {i}}
             IN /\ (\E i \in idx : CannotBeRead(uploads[i])) => "Error reading" \in msgs'
                /\ (\E i \in idx : LacksColumn(uploads[i])) => "missing columns" \in msgs'
                /\ taken = {} =>
                      /\ UNCHANGED <<ledger, csv, bak>>
                      /\ "No valid files to merge" \in msgs'
                /\ taken # {} =>
                      /\ "Merged and saved!" \in msgs'
                      /\ csv' = to_csv(ledger')
                      /\ \A k \in 1..Len(ledger'.rows) :
                            \E r \in SourcesOf(uploads) : AgreeButId(ledger'.rows[k], r)
                      /\ \A i \in taken :
                            \A r \in Range(RowsOffered(uploads[i])) :
                               ~BlankId(r["ID"]) =>
                                  /\ r["ID"] \in IdsOf(ledger'.rows)
                                  /\ r["ID"] \notin Others(i) =>
                                        \E k \in 1..Len(ledger'.rows) :
                                           Agree(ledger'.rows[k], r)]_vars

\* a batch of a file without the Role column and a file without Duration_Min
\* was merged: the first was reported and left no row, the second left its
\* row k3 with 30 as duration
C13_Witness ==
    /\ op = "merge"
    /\ uploaded_files = <<MergeNoRole, MergeB>>
    /\ {"missing columns", "Merged and saved!"} \subseteq msgs
    /\ "k4" \notin IdsOf(ledger.rows)
    /\ \E k \in 1..Len(ledger.rows) :
          /\ ledger.rows[k]["ID"] = "k3"
          /\ ledger.rows[k]["Cost"] = "41.0"
          /\ ledger.rows[k]["Duration_Min"] = "30"

----------------------------------------------------------------------------
(* C14: a write of the durable file that raises *)

\* SpecFault: the handlers that write the file, on a disk whose writes may
\* raise, the backup copy working.  A fault names the write of the handler
\* that raises (1: its first write, 2: the append that follows the rewrite of
\* a file with a stale header) and how: on open, or after some bytes.
WriteFaults == {OpenFails} \cup CutBytes
OverwriteFaults == {NoFail} \cup {[write |-> 1, how |-> h] : h \in WriteFaults}
AppendFaults == OverwriteFaults \cup {[write |-> 2, how |-> h] : h \in WriteFaults}

FaultForm == Form("bob", "Haircut", 20, Today, "Dave", "Employee")

FaultStartFiles ==
    { <<AbsentFile, AbsentFile>>,
      <<StoreOne, AbsentFile>>,
      <<StoreOld, AbsentFile>>,
      <<StoreRagged, AbsentFile>> }

InitFault ==
    /\ \E files \in FaultStartFiles :
          /\ csv = files[1]
          /\ bak = files[2]
          /\ ledger = load_data(files[1], files[2])
          /\ msgs = load_msgs(files[1], files[2])
    /\ users = initialize_default_owner(UsersJson)
    /\ who = NoUser
    /\ pending = <<>>
    /\ clock = 0
    /\ uploaded_files = <<>>
    /\ args = <<>>
    /\ ret = <<>>
    /\ owner_authenticated = FALSE
    /\ owner_password = "owner"
    /\ sessions = <<>>
    /\ op = "load"

\* the session has just loaded the file, or the file holds its ledger
InStep ==
    \/ op = "load"
    \/ csv.st \in {"absent", "empty"} /\ ledger.rows = <<>>
    \/ csv.st = "ok" /\ SameLines(csv.rows, to_csv(ledger).rows)

\* faults do not pile up: a write raises only while the file holds the ledger
May(faults) == IF InStep THEN faults ELSE {NoFail}

NextFault ==
    \/ Login("owner", "owner")
    \/ \E fail \in May(AppendFaults) : SubmitEntry(FaultForm, clock, "a1", NoFault, fail)
    \/ \E fail \in May(OverwriteFaults) : SaveChanges(NoFault, fail)
    \/ \E i \in 1..Len(ledger.rows), fail \in May(OverwriteFaults) : Delete(i, NoFault, fail)
    \/ \E fail \in May(OverwriteFaults) : Import(ImportFull, NoFault, fail)
    \/ \E fail \in May(OverwriteFaults) : Room /\ Merge(<<MergeOne>>, NoFault, fail)

SpecFault == InitFault /\ [][NextFault]_vars

\* the step is a handler whose write of the file raised
WriteFailed ==
    /\ op' \in {"submit", "confirm", "save", "delete", "import", "merge"}
    /\ msgs' \cap {"Failed to save entry", "Failed to save"} # {}

\* the file g begins with the lines of the file f, each with the cells it had
\* under the columns of f
KeepsRows(f, g) ==
    /\ Len(g.rows) >= Len(f.rows)
    /\ \A i \in 1..Len(f.rows) :
          \A k \in 1..Len(f.cols) :
             (k <= Len(f.rows[i]) /\ f.cols[k] \in Range(g.cols)) =>
                 /\ ColIndex(g.cols, f.cols[k]) <= Len(g.rows[i])
                 /\ g.rows[i][ColIndex(g.cols, f.cols[k])] = f.rows[i][k]

\* C14 as stated: when the write of an add, a save, a delete, an import or
\* a merge raises, the handler says so (the failure of an add reaches
\* add_entry_to_ledger, which says the entry is in the session only), the
\* file still has the lines it had, and the ledger has the change made before the
\* write: the added entry as its last row, the imported rows after its
\* own, the merged file's identifier, or the deleted row gone.
C14_FailedWriteKeepsFile ==
    [][WriteFailed =>
          /\ op' = "submit" =>
                /\ "Added to session but failed to save to disk" \in msgs'
                /\ Len(ledger'.rows) = Len(ledger.rows) + 1
          /\ op' = "import" =>
                Len(ledger'.rows) = Len(ledger.rows) + Len(ImportFull.rows)
          /\ op' = "merge" =>
                /\ "Merged but failed to save to disk" \in msgs'
                /\ IdsOf(RowsOffered(MergeOne)) \subseteq IdsOf(ledger'.rows)
          /\ op' = "delete" => Len(ledger'.rows) < Len(ledger.rows)
          /\ op' = "save" => ledger' = ledger
          /\ KeepsRows(csv, csv')]_vars

----------------------------------------------------------------------------
(* C15: the Manage Users page *)

\* users.json: absent, not JSON, or a table of accounts
NoAccounts == [u \in {} |-> Account("", "", "")]
UsersAbsent == [st |-> "absent", accounts |-> NoAccounts]
UsersCorrupt == [st |-> "corrupt", accounts |-> NoAccounts]
UsersFile(accounts) == [st |-> "ok", accounts |-> accounts]

\* an owner under another username, and a barber under the username "owner"
UsersBoss ==
    [u \in {"boss", "owner"} |->
        IF u = "boss" THEN Account("pw", "owner", "Boss")
        ELSE Account("pw", "barber", "Owner")]

UsersFiles == {UsersAbsent, UsersCorrupt, UsersFile(UsersJson), UsersFile(UsersBoss)}

\* load_users
load_users(f) == IF f.st = "ok" THEN f.accounts ELSE NoAccounts

\* the list changed to offer every account
MutDeletableAll(us) == DOMAIN us

\* deletable: the accounts the Delete Account selectbox offers
deletable(us) == {u \in DOMAIN us : us[u].role # "owner"}

\* Manage Users page, "Create Account"
CreateAccount(new_username, new_display, new_password) ==
    /\ PageRuns
    /\ who.role = "owner"
    /\ LET clean_username == Strip(Lower(new_username))
       IN IF clean_username = ""
          THEN /\ Stamp("create_account", {"Username is required."})
               /\ UNCHANGED users
          ELSE IF clean_username \in DOMAIN users
          THEN /\ Stamp("create_account", {"Username already exists."})
               /\ UNCHANGED users
          ELSE IF Strip(new_display) = ""
          THEN /\ Stamp("create_account", {"Display name is required."})
               /\ UNCHANGED users
          ELSE IF new_password = ""
          THEN /\ Stamp("create_account", {"Password is required."})
               /\ UNCHANGED users
          ELSE /\ users' = [u \in DOMAIN users \cup {clean_username} |->
                              IF u = clean_username
                              THEN Account(new_password, "barber", Title(Strip(new_display)))
                              ELSE users[u]]
               /\ Stamp("create_account", {"Account created"})
    /\ UNCHANGED <<csv, bak, ledger, who, pending, clock>>

\* Manage Users page, "Reset Password"
ResetPassword(selected_user, reset_pw) ==
    /\ PageRuns
    /\ who.role = "owner"
    /\ selected_user \in DOMAIN users
    /\ IF reset_pw = ""
       THEN /\ Stamp("reset_password", {"Password cannot be empty."})
            /\ UNCHANGED users
       ELSE /\ users' = [users EXCEPT ![selected_user].password = reset_pw]
            /\ Stamp("reset_password", {"Password reset"})
    /\ UNCHANGED <<csv, bak, ledger, who, pending, clock>>

\* Manage Users page, "Delete Account"
DeleteAccount(del_user) ==
    /\ PageRuns
    /\ who.role = "owner"
    /\ del_user \in deletable(users)
    /\ users' = [u \in DOMAIN users \ {del_user} |-> users[u]]
    /\ Stamp("delete_account", {"Account deleted"})
    /\ UNCHANGED <<csv, bak, ledger, who, pending, clock>>

\* what is typed into the forms of the page
NewUsernames == {"", " Zed ", "dave", "boss"}
NewDisplays == {" ", " zed "}
Passwords == {"", "pw2"}

UsersLogins == { <<"owner", "owner">>, <<"boss", "pw">>, <<"owner", "pw2">>,
                 <<"boss", "pw2">>, <<" Zed ", "pw2">> }

InitUsers ==
    /\ \E f \in UsersFiles : users = initialize_default_owner(load_users(f))
    /\ csv = AbsentFile
    /\ bak = AbsentFile
    /\ ledger = EmptyFrame
    /\ who = NoUser
    /\ pending = <<>>
    /\ clock = 0
    /\ uploaded_files = <<>>
    /\ args = <<>>
    /\ ret = <<>>
    /\ owner_authenticated = FALSE
    /\ owner_password = "owner"
    /\ sessions = <<>>
    /\ op = "load"
    /\ msgs = {}

NextUsers ==
    \/ \E l \in UsersLogins : Login(l[1], l[2])
    \/ Logout
    \/ \E n \in NewUsernames, d \in NewDisplays, pw \in Passwords : CreateAccount(n, d, pw)
    \/ \E u \in DOMAIN users, pw \in Passwords : ResetPassword(u, pw)
    \/ \E u \in DOMAIN users : DeleteAccount(u)

SpecUsers == InitUsers /\ [][NextUsers]_vars

Owners(us) == {u \in DOMAIN us : us[u].role = "owner"}

\* every account of the table us is in the table vs as it is in us
SameAccounts(us, vs) == \A u \in DOMAIN us : u \in DOMAIN vs /\ vs[u] = us[u]

\* C15: the accounts table always holds an account whose role is owner; a
\* step that adds accounts adds one barber account, under a username that
\* was not in the table and is its own lowercase, trimmed form, and changes
\* no other account; a step that removes accounts removes one account that
\* was not an owner and changes no other; a step that does neither changes
\* passwords only, so the roles under every username stay as they were.
C15_OwnerRemains ==
    /\ [](Owners(users) # {})
    /\ [][LET added == DOMAIN users' \ DOMAIN users
              removed == DOMAIN users \ DOMAIN users'
              kept == DOMAIN users \cap DOMAIN users'
          IN /\ added # {} =>
                   /\ op' = "create_account"
                   /\ removed = {}
                   /\ Cardinality(added) = 1
                   /\ \A n \in added :
                         /\ users'[n].role = "barber"
                         /\ Lower(n) = n /\ Strip(n) = n /\ n # ""
                   /\ SameAccounts(users, users')
             /\ removed # {} =>
                   /\ op' = "delete_account"
                   /\ Cardinality(removed) = 1
                   /\ \A d \in removed : users[d].role # "owner"
                   /\ SameAccounts(users', users)
             /\ \A u \in kept :
                   /\ users'[u].role = users[u].role
                   /\ users'[u].display_name = users[u].display_name
                   /\ users'[u].password # users[u].password => op' = "reset_password"]_vars

\* the owner has created the account zed, reset the owner's password and
\* deleted the barber dave: the owner account is still there
C15_Witness ==
    /\ op = "delete_account"
    /\ "zed" \in DOMAIN users
    /\ users["zed"].role = "barber"
    /\ users["zed"].display_name = "Zed"
    /\ "dave" \notin DOMAIN users
    /\ "owner" \in DOMAIN users
    /\ users["owner"].password = "pw2"
    /\ users["owner"].role = "owner"
    /\ deletable(users) # DOMAIN users

----------------------------------------------------------------------------
(* C16: the import of a CSV on the View & Manage page *)

\* the minimal file without the column c
ImportLacking(c) ==
    LET Cut(seq) == SelectSeq(seq, LAMBDA v : v # seq[ColIndex(ImportMinimal.cols, c)])
    IN File(Cut(ImportMinimal.cols), <<Cut(ImportMinimal.rows[1])>>)

\* a file of the minimal columns and a Barber_Name
ImportNamed ==
    File(<<"Date", "Customer_Name", "Service_Type", "Cost", "Barber_Name">>,
         <<<<"2024-01-07", "Amy", "Haircut", "18.0", "Eve">>>>)

ImportAccepted == {ImportFull, ImportMinimal, ImportNamed}
ImportRejected == {ImportLacking(c) : c \in ImportMinCols}

ImportStartFiles ==
    { <<AbsentFile, AbsentFile>>, <<StoreOne, AbsentFile>>, <<StoreOld, AbsentFile>> }

InitImport ==
    /\ \E files \in ImportStartFiles :
          /\ csv = files[1]
          /\ bak = files[2]
          /\ ledger = load_data(files[1], files[2])
          /\ msgs = load_msgs(files[1], files[2])
    /\ users = initialize_default_owner(UsersJson)
    /\ who = NoUser
    /\ pending = <<>>
    /\ clock = 0
    /\ uploaded_files = <<>>
    /\ args = <<>>
    /\ ret = <<>>
    /\ owner_authenticated = FALSE
    /\ owner_password = "owner"
    /\ sessions = <<>>
    /\ op = "load"

NextImport ==
    \/ \E l \in {<<"owner", "owner">>, <<" Dave ", "pw">>} : Login(l[1], l[2])
    \/ Logout
    \/ \E upload \in ImportAccepted \cup ImportRejected : Import(upload, NoFault, NoFail)

SpecImport == InitImport /\ [][NextImport]_vars

\* the cell of the i-th line of the file f under the column c
FileCell(f, i, c) == RowOf(f.rows[i], f.cols)[c]

\* C16: an import of a file that has the four columns Date, Customer_Name,
\* Service_Type and Cost leaves the rows of the ledger in place and adds one
\* row per line of the file, each with the line's cells under those four
\* columns and with Barber_Name the actor's display name when the actor is
\* a barber, the line's Barber_Name when the actor is the owner and the
\* file has the column, and the owner's display name when it has not; the
\* file on disk is then the ledger. An import of a file lacking one of the
\* four columns is reported and leaves ledger, file and backup unchanged.
C16_ImportBarberName ==
    [][/\ \A upload \in ImportAccepted :
             Import(upload, NoFault, NoFail) =>
                LET n == Len(ledger.rows)
                    m == Len(upload.rows)
                IN /\ "Imported" \in msgs'
                   /\ Len(ledger'.rows) = n + m
                   /\ \A i \in 1..n : Agree(ledger'.rows[i], ledger.rows[i])
                   /\ \A i \in 1..m :
                         LET r == ledger'.rows[n + i]
                         IN /\ \A c \in ImportMinCols : r[c] = FileCell(upload, i, c)
                            /\ r["Barber_Name"] =
                                  IF who.role = "barber" THEN who.display
                                  ELSE IF "Barber_Name" \in Range(upload.cols)
                                  THEN FileCell(upload, i, "Barber_Name")
                                  ELSE who.display
                   /\ csv' = to_csv(ledger')
       /\ \A upload \in ImportRejected :
             Import(upload, NoFault, NoFail) =>
                /\ "Missing required columns" \in msgs'
                /\ UNCHANGED <<ledger, csv, bak>>]_vars

\* the barber Dave imported the file whose line names Eve: the row it added
\* names Dave
C16_Witness ==
    /\ op = "import"
    /\ "Imported" \in msgs
    /\ who.role = "barber"
    /\ who.display = "Dave"
    /\ ledger.rows # <<>>
    /\ LastRow(ledger)["Barber_Name"] = "Dave"
    /\ LastRow(ledger)["Customer_Name"] = "Amy"
    /\ LastRow(ledger)["Cost"] = "18.0"

----------------------------------------------------------------------------
(* C17: Delete on the View & Manage page *)

\* the identifier of the selected_idx-th entry the page lists
ListedId(selected_idx) == get_user_ledger_raw(ledger, who).rows[selected_idx]["ID"]

\* the rows of the sequence rows whose identifier is not id, in their order
RowsWithout(rows, id) == SelectSeq(rows, LAMBDA r : r["ID"] # id)

\* the identifiers in the lines of the file f, as written under its ID column
FileIds(f) ==
    {f.rows[i][ColIndex(f.cols, "ID")] :
        i \in {j \in 1..Len(f.rows) : ColIndex(f.cols, "ID") \in 1..Len(f.rows[j])}}

\* C17 as stated: a Delete of the listed entry whose identifier is id leaves
\* in the ledger exactly the rows whose identifier is not id, unmodified and
\* in their order (so the entry is gone, and every row sharing its
\* identifier with it), the file on disk is then the ledger, and no line of
\* the file carries id.
C17_DeleteRemovesId ==
    [][\A selected_idx \in 1..MaxRows :
          Delete(selected_idx, NoFault, NoFail) =>
             LET id == ListedId(selected_idx)
             IN /\ ledger'.rows = RowsWithout(ledger.rows, id)
                /\ ledger'.cols = ledger.cols
                /\ "Entry deleted!" \in msgs'
                /\ csv' = to_csv(ledger')
                /\ CellOf(id) \notin FileIds(csv')]_vars

----------------------------------------------------------------------------
(* C18: normalize_ledger called on the session ledger, and on its result *)

\* the cells the rows of the inputs are made of: texts that parse, texts
\* that parse to another text, texts that do not parse, and nulls
NormDates == {"2024-01-05", "01/05/2024", "bad", NA}
NormCosts == {"20.0", "2e1", "abc", NA}
NormNames == {" dave ", "Dave", NA}
NormDurations == {"30", "45.7", "abc", NA}
NormOptional == {NA, "Owner"}

NormRow(date, cost, name, duration, optional) ==
    [ID |-> "k1", Date |-> date, Time |-> IF optional = NA THEN NA ELSE "09:00:00",
     Barber_Name |-> name, Customer_Name |-> "bob", Service_Type |-> optional,
     Cost |-> cost, Role |-> optional, Duration_Min |-> duration]

NormRows ==
    {NormRow(d, c, n, u, o) :
        d \in NormDates, c \in NormCosts, n \in NormNames,
        u \in NormDurations, o \in NormOptional}

\* rows for the ledgers of two rows: one that is kept, two that are dropped
NormPairRows ==
    { NormRow("01/05/2024", "2e1", " dave ", "45.7", NA),
      NormRow("bad", "20.0", "Dave", "30", "Owner"),
      NormRow("2024-01-05", NA, NA, "abc", NA) }

\* the ledgers normalize_ledger is called on: no row, one row, two rows,
\* and a ledger of the eight older columns
NormalizeInputs ==
    {EmptyFrame}
    \cup {Typed(REQUIRED_COLS, <<r>>) : r \in NormRows}
    \cup {Typed(REQUIRED_COLS, <<r, q>>) : r \in NormPairRows, q \in NormPairRows}
    \cup {load_data(Garbage, StoreOld)}

InitNormalize ==
    /\ ledger \in NormalizeInputs
    /\ csv = to_csv(ledger)
    /\ bak = AbsentFile
    /\ args = ledger
    /\ ret = <<>>
    /\ owner_authenticated = FALSE
    /\ owner_password = "owner"
    /\ sessions = <<>>
    /\ op = "input"
    /\ users = initialize_default_owner(UsersJson)
    /\ who = NoUser
    /\ pending = <<>>
    /\ clock = 0
    /\ uploaded_files = <<>>
    /\ msgs = {}

\* get_clean_ledger: normalize_ledger on the session ledger
CallNormalize ==
    /\ op = "input"
    /\ ret' = [once |-> get_clean_ledger(ledger)]
    /\ op' = "normalize"
    /\ UNCHANGED <<csv, bak, ledger, users, who, pending, clock, uploaded_files,
                   owner_authenticated, owner_password, sessions, args, msgs>>

\* normalize_ledger on the frame the first call returned
CallNormalizeAgain ==
    /\ op = "normalize"
    /\ ret' = [once |-> ret.once, twice |-> normalize_ledger(ret.once)]
    /\ op' = "normalize_twice"
    /\ UNCHANGED <<csv, bak, ledger, users, who, pending, clock, uploaded_files,
                   owner_authenticated, owner_password, sessions, args, msgs>>

NextNormalize == CallNormalize \/ CallNormalizeAgain

SpecNormalize == InitNormalize /\ [][NextNormalize]_vars

\* the date and cost texts of the inputs that parse
ParsesAsDate(v) == v \in {"2024-01-05", "01/05/2024"}
ParsesAsCost(v) == v \in {"20.0", "2e1"}

\* the first date of the column that is not blank, NA when there is none
FirstDate(df) ==
    LET dated == {i \in 1..Len(df.rows) : df.rows[i]["Date"] # NA}
    IN IF dated = {} THEN NA
       ELSE df.rows[CHOOSE i \in dated : \A j \in dated : i <= j]["Date"]

\* the date text v is written as the first date of the column is, or that
\* one is in no format at all
AsFirstDate(df, v) ==
    \/ FirstDate(df) \notin {"2024-01-05", "01/05/2024"}
    \/ (v = "01/05/2024") <=> (FirstDate(df) = "01/05/2024")

\* the rows of df whose Cost parses and whose Date parses as the first date
\* of the column is written
Usable(df) ==
    {i \in 1..Len(df.rows) :
        /\ "Date" \in DOMAIN df.rows[i]
        /\ ParsesAsDate(df.rows[i]["Date"])
        /\ AsFirstDate(df, df.rows[i]["Date"])
        /\ "Cost" \in DOMAIN df.rows[i] /\ ParsesAsCost(df.rows[i]["Cost"])}

\* C18: normalising the normalised ledger returns its columns and its rows,
\* every cell the value it was; the normalised ledger has one row for each
\* row of the ledger whose Cost parses and whose Date parses in the format
\* of the first date of the column, and none for the others; and after both
\* calls the session ledger is the table it was and the file on disk is as
\* it was, the rows that were dropped included.
C18_NormalizeIdempotent ==
    /\ op \in {"normalize", "normalize_twice"} =>
          /\ Len(ret.once.rows) = Cardinality(Usable(args))
          /\ ret.once.cols = REQUIRED_COLS
          /\ ledger = args
          /\ csv = to_csv(args)
    /\ op = "normalize_twice" =>
          /\ ret.twice.cols = ret.once.cols
          /\ ret.twice.rows = ret.once.rows

\* a ledger of two rows, one with a date that does not parse, was normalised
\* twice: the view has the other row, with its cells converted, and the
\* ledger still has both
C18_Witness ==
    /\ op = "normalize_twice"
    /\ Len(ledger.rows) = 2
    /\ ledger.rows[1]["Date"] = "bad"
    /\ ledger.rows[2]["Barber_Name"] = " dave "
    /\ Len(ret.twice.rows) = 1
    /\ ret.twice.rows[1]["Barber_Name"] = "Dave"
    /\ ret.twice.rows[1]["Cost"] = "20.0"
    /\ ret.twice.rows[1]["Date"] = "2024-01-05"
    /\ ret.twice.rows[1]["Duration_Min"] = "45"
    /\ ret.twice.rows[1]["Role"] = "Employee"

----------------------------------------------------------------------------
(* C19: what a role may run *)

\* the dates of January 2024 in use: those of the files and the uploads
\* and those the New Entry form writes
JanuaryDates ==
    {"2024-01-05", "2024-01-06", "2024-01-07"} \cup {DateStr(d) : d \in 10..31}

\* the month whose window [month_start, month_end) holds the date
MonthOf(date) == IF date \in JanuaryDates THEN "2024-01" ELSE "other"

\* Owner Dashboard page, "Unlock Dashboard"
UnlockDashboard(owner_pw) ==
    /\ PageRuns
    /\ who.role = "owner"
    /\ ~owner_authenticated
    /\ owner_authenticated' = (owner_pw = owner_password)
    /\ op' = "dashboard"
    /\ msgs' = IF owner_pw = owner_password THEN {} ELSE {"Incorrect password."}
    /\ UNCHANGED <<csv, bak, ledger, users, who, pending, clock, uploaded_files,
                   owner_password, sessions, args, ret>>

\* Owner Dashboard page, "Change Password", shown while the page is locked
ChangePassword(current_pw, new_pw, confirm_pw) ==
    /\ PageRuns
    /\ who.role = "owner"
    /\ ~owner_authenticated
    /\ op' = "change_password"
    /\ IF current_pw # owner_password
       THEN msgs' = {"Current password is incorrect."} /\ UNCHANGED owner_password
       ELSE IF new_pw = ""
       THEN msgs' = {"New password cannot be empty."} /\ UNCHANGED owner_password
       ELSE IF new_pw # confirm_pw
       THEN msgs' = {"New passwords do not match."} /\ UNCHANGED owner_password
       ELSE msgs' = {"Password changed!"} /\ owner_password' = new_pw
    /\ UNCHANGED <<csv, bak, ledger, users, who, pending, clock, uploaded_files,
                   owner_authenticated, sessions, args, ret>>

\* Owner Dashboard page once unlocked: the financial summary of a month
OwnerDashboard(month_choice) ==
    /\ PageRuns
    /\ who.role = "owner"
    /\ owner_authenticated
    /\ LET df == get_clean_ledger(ledger)
           df_month == SelectRows(df, LAMBDA r : MonthOf(r["Date"]) = month_choice)
       IN Stamp("dashboard",
                IF ledger.rows = <<>> \/ ledger.cols = <<>> THEN {"No data available."}
                ELSE IF df.rows = <<>> THEN {"No valid data."}
                ELSE IF df_month.rows = <<>> THEN {"No transactions in"}
                ELSE {"Financials"})
    /\ UNCHANGED <<csv, bak, ledger, users, who, pending, clock>>

\* what is typed into the password fields of the dashboard
DashboardPasswords == {"owner", "pw", "x"}

AccessStartFiles == { <<AbsentFile, AbsentFile>>, <<StoreOne, AbsentFile>> }

AccessLogins ==
    { <<"owner", "owner">>, <<" Dave ", "pw">>, <<"dave", "owner">>, <<"nobody", "pw">>,
      <<"DAVE", "pw2">>, <<" Zed ", "pw2">> }

InitAccess ==
    /\ \E files \in AccessStartFiles :
          /\ csv = files[1]
          /\ bak = files[2]
          /\ ledger = load_data(files[1], files[2])
          /\ msgs = load_msgs(files[1], files[2])
    /\ users = initialize_default_owner(UsersJson)
    /\ who = NoUser
    /\ pending = <<>>
    /\ clock = 0
    /\ uploaded_files = <<>>
    /\ args = <<>>
    /\ ret = <<>>
    /\ owner_authenticated = FALSE
    /\ owner_password = "owner"
    /\ sessions = <<>>
    /\ op = "load"

NextAccess ==
    \/ \E l \in AccessLogins : Login(l[1], l[2])
    \/ Logout
    \/ SubmitEntry(FaultForm, clock, "a1", NoFault, NoFail)
    \/ SaveChanges(NoFault, NoFail)
    \/ \E i \in 1..Len(ledger.rows) : Delete(i, NoFault, NoFail)
    \/ Room /\ Merge(<<MergeOne>>, NoFault, NoFail)
    \/ \E owner_pw \in DashboardPasswords : UnlockDashboard(owner_pw)
    \/ \E current_pw \in DashboardPasswords, new_pw, confirm_pw \in {"", "x"} :
           ChangePassword(current_pw, new_pw, confirm_pw)
    \/ \E month_choice \in {"2024-01", "other"} : OwnerDashboard(month_choice)
    \/ CreateAccount(" Zed ", " zed ", "pw2")
    \/ ResetPassword("dave", "pw2")
    \/ DeleteAccount("eve")

SpecAccess == InitAccess /\ [][NextAccess]_vars

\* the operations of the Merge Ledgers, Owner Dashboard and Manage Users pages
OwnerOps ==
    {"merge", "dashboard", "change_password", "create_account", "reset_password",
     "delete_account"}

\* the operations of any page
PageOps ==
    OwnerOps \cup {"submit", "confirm", "discard", "save", "delete", "import", "logout"}

\* the typed username, lowercased and trimmed, is an account with this password
Matches(username, password) ==
    \E u \in DOMAIN users : u = Strip(Lower(username)) /\ users[u].password = password

\* C19: a step that is a merge, a dashboard operation, an account creation,
\* a password reset or an account deletion is taken with an owner logged in,
\* never with a barber; a step that is an operation of any page is taken
\* with an actor logged in; and a login leaves an actor logged in exactly
\* when the lowercased, trimmed username is an account and the password is
\* that account's, the actor then being that account.
C19_RoleGates ==
    [][/\ op' \in OwnerOps => (who.role = "owner" /\ who.role # "barber")
       /\ op' \in PageOps => who # NoUser
       /\ \A l \in AccessLogins :
             Login(l[1], l[2]) =>
                /\ who = NoUser
                /\ who' # NoUser <=> Matches(l[1], l[2])
                /\ who' # NoUser =>
                      /\ who'.user = Strip(Lower(l[1]))
                      /\ who'.role = users[who'.user].role]_vars

\* the owner has created the account zed and logged out, and a barber who
\* then logged in has deleted an entry: the pages a barber has did run
C19_Witness ==
    /\ who.role = "barber"
    /\ op = "delete"
    /\ "zed" \in DOMAIN users
    /\ ~owner_authenticated

----------------------------------------------------------------------------
(* C20: two browser sessions on the same files *)

\* Each session runs its script in a thread of its own, and nothing is
\* locked.  overwrite_disk_with_session is create_backup and then to_csv.
\* shutil.copy2 opens the file and the backup (the backup is empty from then
\* on) and copies what it reads from the file until it reads nothing more;
\* to_csv opens the file for writing (the file is empty from then on), may
\* flush a first part of its text, and writes the rest when it closes the
\* file.  The other session can run between any two of these.
\* sessions[s] is the session state of s, the position of its script
\* ("idle", "copying" once the copy has opened both files, "copied" once
\* create_backup has returned, "opened", "flushed"), the handler it is in,
\* the content the file had when s opened it for writing, the bytes its
\* copy has read and written (sent), and the bytes its handle on the file
\* has written (at).
SessionIds == {1, 2}

\* the byte counts at which to_csv may flush
FlushBytes == {132}

SessionOf(df, actor, pc, handler, replaced) ==
    [ledger |-> df, who |-> actor, pc |-> pc, handler |-> handler,
     replaced |-> replaced, at |-> 0, sent |-> 0]

RaceStamp(name, reported) ==
    /\ op' = name
    /\ msgs' = reported
    /\ UNCHANGED <<ledger, users, who, pending, uploaded_files,
                   owner_authenticated, owner_password, args, ret>>

\* a handle at the position at writes the bytes piece into the file found:
\* they lie over the bytes at their place, those before and after them
\* stay, and where the file ends before the position (it was emptied
\* since) NUL bytes fill the gap
WriteAt(found, piece, at) ==
    LET text == TextOf(found)
        before == IF Len(text) < at THEN text \o Nuls(at - Len(text))
                  ELSE Prefix(text, at)
    IN IF piece = "" THEN found
       ELSE FileOfText(before \o piece \o Suffix(text, at + Len(piece)))

\* overwrite_disk_with_session, first step: create_backup finds the file
\* and shutil.copy2 opens it and the backup.  The handler has replaced the
\* session ledger of s by df just before.
BeginOverwrite(s, df, name) ==
    /\ sessions[s].pc = "idle"
    /\ sessions' = [sessions EXCEPT ![s] =
                       SessionOf(df, @.who,
                                 IF csv.st = "absent" THEN "copied" ELSE "copying",
                                 name, AbsentFile)]
    /\ bak' = IF csv.st = "absent" THEN bak ELSE EmptyFileOnDisk
    /\ RaceStamp(name, {})
    /\ UNCHANGED csv

\* "Save Changes to Disk" in the session s
BeginSave(s) ==
    /\ sessions[s].ledger.rows # <<>>
    /\ BeginOverwrite(s, sessions[s].ledger, "save")
    /\ UNCHANGED clock

\* "Delete" on the selected_idx-th entry in the session s
BeginDelete(s, selected_idx) ==
    /\ selected_idx \in 1..Len(sessions[s].ledger.rows)
    /\ LET id_to_delete == sessions[s].ledger.rows[selected_idx]["ID"]
       IN BeginOverwrite(s, SelectRows(sessions[s].ledger,
                                       LAMBDA r : NotEqual(r["ID"], id_to_delete)),
                         "delete")
    /\ UNCHANGED clock

\* "Import All" of the file upload in the session s
BeginImport(s, upload) ==
    /\ Len(sessions[s].ledger.rows) < MaxRows
    /\ \E run \in {r \in GeneratedRuns(Len(upload.rows), clock) :
                      \A i \in 1..Len(r) : r[i].id = generate_unique_id(clock, "a1")} :
          /\ BeginOverwrite(s, concat(sessions[s].ledger,
                                      import_frame(read_csv(upload).df, sessions[s].who, run)),
                            "import")
          /\ clock' = LastClock(run, clock)

\* one round of the loop of the copy: it reads the bytes the file has beyond
\* those it has read and writes them to the backup; when there are none the
\* copy is done and create_backup returns
CopyBackup(s) ==
    /\ sessions[s].pc = "copying"
    /\ LET text == TextOf(csv)
           sent == sessions[s].sent
       IN IF Len(text) > sent
          THEN /\ bak' = WriteAt(bak, Suffix(text, sent), sent)
               /\ sessions' = [sessions EXCEPT ![s].sent = Len(text)]
          ELSE /\ bak' = bak
               /\ sessions' = [sessions EXCEPT ![s].pc = "copied", ![s].sent = 0]
    /\ RaceStamp("copy", {})
    /\ UNCHANGED <<csv, clock>>

\* to_csv opens CSV_FILE with mode "w": the file is truncated
OpenOverwrite(s) ==
    /\ sessions[s].pc = "copied"
    /\ csv' = EmptyFileOnDisk
    /\ sessions' = [sessions EXCEPT ![s].pc = "opened", ![s].replaced = csv]
    /\ RaceStamp("open", {})
    /\ UNCHANGED <<bak, clock>>

\* to_csv flushes the first bytes of its text before it has written all
FlushOverwrite(s, bytes) ==
    /\ sessions[s].pc = "opened"
    /\ LET text == CsvText(sessions[s].ledger, TRUE)
       IN /\ bytes < Len(text)
          /\ csv' = WriteAt(csv, Prefix(text, bytes), 0)
    /\ sessions' = [sessions EXCEPT ![s].pc = "flushed", ![s].at = bytes]
    /\ RaceStamp("flush", {})
    /\ UNCHANGED <<bak, clock>>

\* what the handler reports once overwrite_disk_with_session has returned
RaceReports(handler) ==
    CASE handler = "save"   -> {"Saved to disk!"}
      [] handler = "delete" -> {"Entry deleted!"}
      [] handler = "import" -> {"Imported"}

\* overwrite_disk_with_session, last step: to_csv writes the rest of the
\* text of the ledger and closes the file, and the handler reports
FinishOverwrite(s) ==
    /\ sessions[s].pc \in {"opened", "flushed"}
    /\ csv' = WriteAt(csv, Suffix(CsvText(sessions[s].ledger, TRUE), sessions[s].at),
                      sessions[s].at)
    /\ sessions' = [sessions EXCEPT ![s].pc = "idle", ![s].at = 0]
    /\ RaceStamp("overwrite", RaceReports(sessions[s].handler))
    /\ UNCHANGED <<bak, clock>>

RaceStartFiles == {StoreOne}

InitRace ==
    /\ csv \in RaceStartFiles
    /\ bak = AbsentFile
    /\ users = initialize_default_owner(UsersJson)
    /\ sessions = [s \in SessionIds |->
                      SessionOf(load_data(csv, bak),
                                authenticate("owner", "owner", users), "idle", "", AbsentFile)]
    /\ ledger = EmptyFrame
    /\ who = NoUser
    /\ pending = <<>>
    /\ clock = 0
    /\ uploaded_files = <<>>
    /\ args = <<>>
    /\ ret = <<>>
    /\ owner_authenticated = FALSE
    /\ owner_password = "owner"
    /\ op = "load"
    /\ msgs = {}

NextRace ==
    \E s \in SessionIds :
       \/ BeginSave(s)
       \/ \E i \in 1..MaxRows : BeginDelete(s, i)
       \/ BeginImport(s, ImportNamed)
       \/ CopyBackup(s)
       \/ OpenOverwrite(s)
       \/ \E bytes \in FlushBytes : FlushOverwrite(s, bytes)
       \/ FinishOverwrite(s)

SpecRace == InitRace /\ [][NextRace]_vars

\* C20 as stated: when the overwrite of a session completes, the file on
\* disk holds that session's ledger, whatever the other session wrote
\* before, and the backup file holds the content the file had until this
\* write replaced it.
C20_LastWriteWins ==
    [][\A s \in SessionIds :
          FinishOverwrite(s) =>
             /\ csv' = to_csv(sessions'[s].ledger)
             /\ bak' = sessions[s].replaced]_vars

----------------------------------------------------------------------------
(* C21: the file after a write that returned *)

\* the step is an add, a save, a delete, an import or a merge whose write of
\* the file returned without raising
WriteReturned ==
    /\ op' \in {"submit", "confirm", "save", "delete", "import", "merge"}
    /\ msgs' \cap {"Entry added", "Saved to disk!", "Entry deleted!", "Imported",
                  "Merged and saved!"} # {}

\* C21 as stated: after every add, save, delete, import or merge whose write
\* returned, the lines of the file are the rows of the session ledger,
\* value for value and in order, whatever happened before in the session,
\* a write that raised included.
C21_FileIsLedger ==
    [][WriteReturned => SameLines(csv'.rows, to_csv(ledger').rows)]_vars

----------------------------------------------------------------------------
(* C22: the first write of a session that loaded the backup *)

\* SpecFallback: sessions whose file is empty or cannot be parsed while the backup
\* is good, and one whose file is good
FallbackStartFiles ==
    { <<EmptyFileOnDisk, StoreOne>>,
      <<Garbage, StoreOne>>,
      <<StoreOne, AbsentFile>> }

InitFallback ==
    /\ \E files \in FallbackStartFiles :
          /\ csv = files[1]
          /\ bak = files[2]
          /\ ledger = load_data(files[1], files[2])
          /\ msgs = load_msgs(files[1], files[2])
    /\ users = initialize_default_owner(UsersJson)
    /\ who = NoUser
    /\ pending = <<>>
    /\ clock = 0
    /\ uploaded_files = <<>>
    /\ args = <<>>
    /\ ret = <<>>
    /\ owner_authenticated = FALSE
    /\ owner_password = "owner"
    /\ sessions = <<>>
    /\ op = "load"

NextFallback ==
    \/ \E l \in {<<"owner", "owner">>, <<" Dave ", "pw">>} : Login(l[1], l[2])
    \/ Logout
    \/ \E sfx \in Suffixes : SubmitEntry(FaultForm, clock, sfx, NoFault, NoFail)
    \/ SaveChanges(NoFault, NoFail)
    \/ \E i \in 1..Len(ledger.rows) : Delete(i, NoFault, NoFail)
    \/ Import(ImportNamed, NoFault, NoFail)

SpecFallback == InitFallback /\ [][NextFallback]_vars

\* the session loaded its ledger from the backup, the file being there but
\* not readable, and has written nothing since
FellBack ==
    /\ csv.st \in {"empty", "corrupt"}
    /\ bak.st = "ok"
    /\ ledger = load_data(csv, bak)
    /\ ledger.rows # <<>>

\* the row r can be read back from the file f
OnDisk(r, f) ==
    /\ f.st = "ok"
    /\ \E i \in 1..Len(f.rows) :
          \A c \in DOMAIN r :
             c \in Range(f.cols) /\ SameValue(RowOf(f.rows[i], f.cols)[c], r[c])

\* C22 as stated: when a session that loaded the backup makes its first add,
\* save, delete or import, every row it loaded that the step did not itself
\* delete can afterwards be read back from the file or from the backup file.
C22_BackupRowsRecoverable ==
    [][(FellBack /\ WritingStep) =>
          \A i \in 1..Len(ledger.rows) :
             (\E k \in 1..Len(ledger'.rows) : Agree(ledger'.rows[k], ledger.rows[i])) =>
                 (OnDisk(ledger.rows[i], csv') \/ OnDisk(ledger.rows[i], bak'))]_vars

----------------------------------------------------------------------------
(* C23: whose name an entry added by a barber carries *)

\* the step added an entry to the ledger from the New Entry page
EntryAdded ==
    /\ op' \in {"submit", "confirm"}
    /\ Len(ledger'.rows) = Len(ledger.rows) + 1

\* C23 as stated: an entry added to the ledger from the New Entry page, by
\* the form or by "Confirm & Save", while a barber is logged in has that
\* barber's display name as Barber_Name and Employee as Role, whatever
\* logins and logouts came before in the session.
C23_BarberEntriesOwnName ==
    [][(EntryAdded /\ who.role = "barber") =>
          /\ LastRow(ledger')["Barber_Name"] = who.display
          /\ LastRow(ledger')["Role"] = "Employee"]_vars

\* the same for the entries the form adds at once, without a confirmation
BarberFormOwnName ==
    [][(EntryAdded /\ op' = "submit" /\ who.role = "barber") =>
          /\ LastRow(ledger')["Barber_Name"] = who.display
          /\ LastRow(ledger')["Role"] = "Employee"]_vars

----------------------------------------------------------------------------
(* C24: what a Delete leaves of the selected entry *)

\* the selected_idx-th entry of the delete list
ListedEntry(selected_idx) == get_user_ledger_raw(ledger, who).rows[selected_idx]

\* the ledger df holds a row with the cells of the entry r
Holds(df, r) == \E k \in 1..Len(df.rows) : df.rows[k] = r

\* C24 as stated: a Delete of any listed entry, one with a null ID included,
\* leaves the ledger with fewer rows than it had, and says "Entry deleted!"
\* only when the ledger no longer holds the selected entry.
C24_DeleteShrinksLedger ==
    [][\A selected_idx \in 1..MaxRows :
          Delete(selected_idx, NoFault, NoFail) =>
             /\ Len(ledger'.rows) < Len(ledger.rows)
             /\ "Entry deleted!" \in msgs' => ~Holds(ledger', ListedEntry(selected_idx))]_vars

\* the same for the listed entries whose ID is not null
DeleteShrinksLedgerWithId ==
    [][\A selected_idx \in 1..MaxRows :
          (Delete(selected_idx, NoFault, NoFail) /\ ListedId(selected_idx) # NA) =>
             /\ Len(ledger'.rows) < Len(ledger.rows)
             /\ "Entry deleted!" \in msgs' => ~Holds(ledger', ListedEntry(selected_idx))]_vars

====
